---- MODULE Spec2Model ----
(***************************************************************************)
(* Conversation context engine of first-telegram-bot.                      *)
(*                                                                         *)
(* State: the Redis hash of every user (recency tier) with its expiry, the *)
(* two Qdrant collections (conversation_history, read by the context       *)
(* lookup, and conversation_history_v2, written by the message handler and *)
(* patched by the REST endpoint), the clients each service object holds    *)
(* after initialize(), the wall clock, and the outcome of the last call.   *)
(*                                                                         *)
(* Units: similarity scores and confidences are integers in permille       *)
(* (0.3 is 300); times are <<seconds, microseconds>> pairs.                *)
(***************************************************************************)
EXTENDS Integers, Sequences, FiniteSets, TLC

VARIABLES
    redis,          \* [user -> hash], a hash is a function field id -> JSON dict
    redis_expire,   \* [user -> <<second at which the key expires>>, NoTTL if none]
    qdrant,         \* collection "conversation_history": point id -> [vector, payload]
    qdrant_v2,      \* collection "conversation_history_v2": point id -> [vector, payload]
    clients,        \* which clients initialize() left set, whether Redis answers,
                    \* and whether the Qdrant collections exist
    now,            \* wall clock <<seconds, microseconds>>
    budget,         \* what the run has used up: adds, and the one clear, fault, patch, jump
    ret,            \* outcome of the last operation, as seen by its caller
    hist,           \* history, per user: the ids added since the start or the last
                    \* clear, in call order, and whether a clear came last
    inflight,       \* add_conversation calls suspended at an await: call -> position
                    \* and locals
    startup,        \* services/initialization.py: the flag, the holder of the lock,
                    \* the coroutines of the startup and how often each initialize() ran
    tasks,          \* TaskScheduler.tasks: task id -> ScheduledTask
    job_queue       \* the jobs pending in the bot's job queue, by name

vars == <<redis, redis_expire, qdrant, qdrant_v2, clients, now, budget, ret, hist, inflight,
          startup, tasks, job_queue>>

----------------------------------------------------------------------------
(* Bounds of the model. *)

MaxAdds == 3        \* exchanges written in one run
MaxAt == 3          \* a fault starts at the 1st .. MaxAt-th call of an operation
MaxCandidates == 3  \* messages in a list handed to a function checked on its own

(* Size limits of the service.  The source has 50 / 10 / 20; the model     *)
(* keeps the code paths and ties the numbers to MaxAdds, so that a run can *)
(* exceed the cap of the recency tier and fill the context slots.          *)
max_redis_messages == MaxAdds - 1                \* self.max_redis_messages
max_context_messages == MaxAdds - 1              \* self.max_context_messages
recent_limit == MaxAdds - 1                      \* limit of _get_recent_from_redis

(* Program constants. *)
redis_ttl == 604800                  \* 7 * 24 * 3600 seconds
context_relevance_threshold == 300   \* 0.3, in permille
CONFIDENCE_CONTEXT_THRESHOLD == 300  \* 0.3, in permille
DaySeconds == 86400                  \* 24 * 3600, the recency decay
MaxContextLength == 3000             \* max_context_length passed by the handler
PayloadTextLimit == 2000             \* the handler's cut of the context text it posts

Users == {"A", "B"}
Msgs == {"python", "cooking"}
NoTTL == << >>
None == "None"

----------------------------------------------------------------------------
(* Generic helpers. *)

Min(a, b) == IF a <= b THEN a ELSE b
Max(a, b) == IF a >= b THEN a ELSE b

SumSeq(s) ==
    LET partial[i \in 0..Len(s)] == IF i = 0 THEN 0 ELSE partial[i - 1] + s[i]
    IN partial[Len(s)]

Take(s, n) == SubSeq(s, 1, Min(n, Len(s)))

Range(s) == {s[i] : i \in 1..Len(s)}

EmptyHash == << >>

(* Order of two sort keys: strings, instants and numbers are tuples of     *)
(* integers, compared position by position, a proper prefix first.         *)
KeyLess(a, b) ==
    LET common == 1..Min(Len(a), Len(b))
        differ == {k \in common : a[k] # b[k]}
        first == CHOOSE k \in differ : \A j \in differ : k <= j
    IN IF differ = {} THEN Len(a) < Len(b) ELSE a[first] < b[first]

(* list.sort(key=...) and sorted(..., key=...): key[i] is the key of s[i]; *)
(* ascending, and stable: an element is inserted after every element      *)
(* whose key is not greater.  reverse=True is the negated key.             *)
StableSort(s, key) ==
    LET Insert(i, t) ==
            LET later == {j \in 1..Len(t) : KeyLess(key[i], key[t[j]])}
                p == IF later = {} THEN Len(t) + 1
                     ELSE CHOOSE j \in later : \A k \in later : j <= k
            IN SubSeq(t, 1, p - 1) \o <<i>> \o SubSeq(t, p, Len(t))
        sorted[i \in 0..Len(s)] ==
            IF i = 0 THEN << >> ELSE Insert(i, sorted[i - 1])
    IN [i \in 1..Len(s) |-> s[sorted[Len(s)][i]]]

(* An instant as a sort key, and the key of the reverse order. *)
TimeKey(t) == <<t[1], t[2]>>
TimeKeyReversed(t) == <<-t[1], -t[2]>>

(* datetime.isoformat(): the fraction is left out when microsecond = 0, so *)
(* the character after the seconds is "+" (43) or "." (46).  Strings are   *)
(* compared character by character: the seconds first, then that        *)
(* character, then the digits of the fraction.                             *)
IsoFormat(t) == <<t[1], IF t[2] = 0 THEN 43 ELSE 46, t[2]>>

(* A timestamp string as a sort key: the string. *)
StrKey(iso) == iso

(* Variant: the list is left in the order it was put together. *)
SortByTimestamp_unsorted(messages) == messages

(* messages.sort(key=lambda x: x.timestamp) *)
SortByTimestamp(messages) ==
    StableSort(messages, [i \in 1..Len(messages) |-> TimeKey(messages[i].timestamp)])

(* messages.sort(key=lambda x: x.timestamp, reverse=True) *)
SortByTimestampReversed(messages) ==
    StableSort(messages, [i \in 1..Len(messages) |-> TimeKeyReversed(messages[i].timestamp)])

(* Variant: lowest score first. *)
SortByScoreReversed_ascending(messages) ==
    StableSort(messages, [i \in 1..Len(messages) |-> <<messages[i].context_score>>])

(* sorted(messages, key=lambda x: x.context_score, reverse=True) *)
SortByScoreReversed(messages) ==
    StableSort(messages, [i \in 1..Len(messages) |-> <<-messages[i].context_score>>])

(* The elements of a set in some fixed order. *)
SetToSeq(S) ==
    LET seq[T \in SUBSET S] ==
            IF T = {} THEN << >>
            ELSE LET x == CHOOSE y \in T : TRUE IN <<x>> \o seq[T \ {x}]
    IN seq[S]

(* A hash or collection without the fields / points in ids. *)
Without(f, ids) == [i \in DOMAIN f \ ids |-> f[i]]

(* Variant: the whole hash or collection is replaced by the one entry. *)
With_only(f, id, v) == id :> v

(* hset / upsert: the field is created or overwritten. *)
With(f, id, v) == (id :> v) @@ f

----------------------------------------------------------------------------
(* Embedding provider (SentenceTransformer "all-MiniLM-L6-v2"), external:  *)
(* a deterministic map from a text to a vector of fixed norm.  A text is   *)
(* a sequence of words; the vector is the point of the circle of radius 5  *)
(* whose index is the sum of the words' weights.                           *)

Circle == <<
    <<5, 0>>, <<4, 3>>, <<3, 4>>, <<0, 5>>, <<-3, 4>>, <<-4, 3>>,
    <<-5, 0>>, <<-4, -3>>, <<-3, -4>>, <<0, -5>>, <<3, -4>>, <<4, -3>> >>

WordWeight(w) ==
    CASE w = "python" -> 0
      [] w = "cooking" -> 6
      [] w = "pending" -> 1
      [] w = "recipe" -> 0
      [] w = "User:" -> 0
      [] w = "Bot:" -> 1
      [] OTHER -> 2

encode(text) ==
    Circle[(SumSeq([i \in 1..Len(text) |-> WordWeight(text[i])]) % Len(Circle)) + 1]

(* Variant: the quotient with its sign turned. *)
_cosine_similarity_negated(vec1, vec2) ==
    -(((vec1[1] * vec2[1] + vec1[2] * vec2[2]) * 1000) \div 25)

(* np.dot(v1, v2) / (norm(v1) * norm(v2)), in permille; every vector has   *)
(* norm 5, so the quotient is exact.                                       *)
_cosine_similarity(vec1, vec2) ==
    ((vec1[1] * vec2[1] + vec1[2] * vec2[2]) * 1000) \div 25

----------------------------------------------------------------------------
(* ConversationMessage and its serialisations. *)

(* datetime.fromisoformat of a string isoformat() wrote. *)
FromIso(iso) == <<iso[1], iso[3]>>

Username(u) == IF u = "A" THEN "alice" ELSE "bob"

ConversationMessage(user_id, message, response, timestamp, intent) ==
    [user_id |-> user_id, username |-> Username(user_id), message |-> message,
     response |-> response, timestamp |-> timestamp, intent |-> intent,
     context_score |-> 0]

(* asdict(self) with the timestamp as an ISO string. *)
to_dict(m) == [m EXCEPT !.timestamp = IsoFormat(m.timestamp)]

(* from_dict: a "bot_response" key, when present, replaces "response". *)
from_dict(d) ==
    [user_id |-> d.user_id, username |-> d.username, message |-> d.message,
     response |-> IF "bot_response" \in DOMAIN d THEN d.bot_response ELSE d.response,
     timestamp |-> FromIso(d.timestamp), intent |-> d.intent,
     context_score |-> d.context_score]

(* _get_message_id: uuid5 of "{user_id}:{timestamp.isoformat()}", a value  *)
(* determined by the pair and, collisions aside, determining it.           *)
_get_message_id(user_id, timestamp) == <<user_id, IsoFormat(timestamp)>>

(* combined_text of a stored point: f"User: {message}\nBot: {response}". *)
CombinedText(message, response) == <<"User:", message, "Bot:", response>>

----------------------------------------------------------------------------
(* Faults.  A fault names a service and the index of the first call to it, *)
(* within one operation, that raises; later calls of the operation to that *)
(* service raise too.  A Redis server that did not answer the ping of      *)
(* initialize() fails every call, and so does Qdrant for a collection that *)
(* was deleted.                                                            *)

NoFault == [svc |-> "none", at |-> 1]
Raises(flt, svc, k) ==
    \/ flt.svc = svc /\ k >= flt.at
    \/ svc = "redis" /\ ~clients.redis_reachable
    \/ svc = "qdrant" /\ ~clients.collections_exist

(* A run has at most one faulty operation. *)
FaultOk(flt) == flt = NoFault \/ ~budget.faulted

(* datetime.now(timezone.utc): two reads never return the same instant. *)
Later(t) == <<t[1], t[2] + 1>>

----------------------------------------------------------------------------
(* Recency tier: ConversationHistoryService over Redis. *)

(* Variant: the fields with the latest timestamp string first. *)
SortFields_newest_first(all_msgs) ==
    LET by_timestamp(fields) ==
            StableSort(fields, [i \in 1..Len(fields) |->
                                   <<-all_msgs[fields[i]].timestamp[1],
                                     -all_msgs[fields[i]].timestamp[2],
                                     -all_msgs[fields[i]].timestamp[3]>>])
    IN by_timestamp(SetToSeq(DOMAIN all_msgs))

(* sorted(all_msgs.items(), key=lambda item: json.loads(item[1])["timestamp"]): *)
(* the fields of a hash by the timestamp string of their value.               *)
SortFields(all_msgs) ==
    LET by_timestamp(fields) ==
            StableSort(fields, [i \in 1..Len(fields) |-> StrKey(all_msgs[fields[i]].timestamp)])
    IN by_timestamp(SetToSeq(DOMAIN all_msgs))

(* Variant: all but the first cap fields. *)
TrimFields_newest(sorted_fields) ==
    SubSeq(sorted_fields, max_redis_messages + 1, Len(sorted_fields))

(* sorted_fields[:-self.max_redis_messages]: all but the last cap fields. *)
TrimFields(sorted_fields) ==
    Take(sorted_fields, Len(sorted_fields) - max_redis_messages)

(* _store_in_redis.  k0 Redis calls were made earlier in the operation.    *)
(* Calls: hset, expire, hkeys, then hgetall and one hdel per field to      *)
(* trim.  An exception at any call ends the method with what was done.     *)
_store_in_redis(rd, ex, message, message_id, flt, k0) ==
    LET u == message.user_id
        unchanged == [redis |-> rd, expire |-> ex]
        ex1 == [ex EXCEPT ![u] = IF rd[u] = EmptyHash THEN NoTTL ELSE @]
        ex2 == [ex EXCEPT ![u] = <<now[1] + redis_ttl>>]
        deleted(oldest) == {oldest[i] : i \in {j \in 1..Len(oldest) :
                                                  ~Raises(flt, "redis", k0 + 4 + j)}}
        stored(h1) ==
            IF ~clients.redis_client THEN unchanged
            ELSE IF Raises(flt, "redis", k0 + 1) THEN unchanged
            ELSE IF Raises(flt, "redis", k0 + 2) THEN [redis |-> [rd EXCEPT ![u] = h1],
                                                       expire |-> ex1]
            ELSE IF \/ Raises(flt, "redis", k0 + 3)
                    \/ Cardinality(DOMAIN h1) <= max_redis_messages
                    \/ Raises(flt, "redis", k0 + 4)
                 THEN [redis |-> [rd EXCEPT ![u] = h1], expire |-> ex2]
            ELSE [redis |-> [rd EXCEPT ![u] =
                                Without(h1, deleted(TrimFields(SortFields(h1))))],
                  expire |-> ex2]
    IN stored(With(rd[u], message_id, to_dict(message)))

(* Variant: the parsed messages oldest first. *)
_get_recent_from_redis_oldest_first(rd, user_id, limit, flt, k0) ==
    IF ~clients.redis_client \/ Raises(flt, "redis", k0 + 1) THEN << >>
    ELSE LET all_msgs == rd[user_id]
             parsed_msgs == [i \in 1..Cardinality(DOMAIN all_msgs) |->
                                from_dict(all_msgs[SetToSeq(DOMAIN all_msgs)[i]])]
         IN Take(SortByTimestamp(parsed_msgs), limit)

(* _get_recent_from_redis: every value of the hash parsed, most recent     *)
(* first, cut to limit; [] without a client or when hgetall raises.        *)
_get_recent_from_redis(rd, user_id, limit, flt, k0) ==
    IF ~clients.redis_client \/ Raises(flt, "redis", k0 + 1) THEN << >>
    ELSE LET all_msgs == rd[user_id]
             parsed_msgs == [i \in 1..Cardinality(DOMAIN all_msgs) |->
                                from_dict(all_msgs[SetToSeq(DOMAIN all_msgs)[i]])]
         IN Take(SortByTimestampReversed(parsed_msgs), limit)

----------------------------------------------------------------------------
(* Similarity index: collection "conversation_history". *)

(* _store_in_qdrant.  e0 / q0 embedding / Qdrant calls were made earlier. *)
_store_in_qdrant(qd, message, message_id, flt, e0, q0) ==
    IF ~clients.qdrant_client \/ ~clients.embedding_model THEN qd
    ELSE IF Raises(flt, "embed", e0 + 1) \/ Raises(flt, "qdrant", q0 + 1) THEN qd
    ELSE LET combined_text == CombinedText(message.message, message.response)
             d == to_dict(message)
             payload == [user_id |-> d.user_id, username |-> d.username,
                         message |-> d.message, response |-> d.response,
                         timestamp |-> d.timestamp, intent |-> d.intent,
                         context_score |-> d.context_score,
                         combined_text |-> combined_text]
         IN With(qd, message_id, [vector |-> encode(combined_text), payload |-> payload])

(* Variant: a filter that lets every payload through. *)
UserFilter_any_user(user_id, payload) == TRUE

(* The user_id filter of _get_semantic_context. *)
UserFilter(user_id, payload) == payload.user_id = user_id

(* qdrant_client.search: the points that pass the filter and reach the     *)
(* score threshold, best score first, at most limit of them.  Equal scores *)
(* come in the index's own, fixed, order.                                  *)
QdrantSearch(qd, query_vector, user_id, limit, score_threshold) ==
    LET hits == {id \in DOMAIN qd :
                    /\ UserFilter(user_id, qd[id].payload)
                    /\ _cosine_similarity(query_vector, qd[id].vector) >= score_threshold}
        scored(order) ==
            [i \in 1..Len(order) |->
                [id |-> order[i], payload |-> qd[order[i]].payload,
                 score |-> _cosine_similarity(query_vector, qd[order[i]].vector)]]
        ranked(s) == StableSort(s, [i \in 1..Len(s) |-> <<-s[i].score>>])
    IN Take(ranked(scored(SetToSeq(hits))), limit)

(* Variant: an exception of the embedding or the search is not caught. *)
_get_semantic_context_uncaught(qd, user_id, current_message, limit, exclude_recent_ids, flt, e0, q0) ==
    IF ~clients.qdrant_client \/ ~clients.embedding_model THEN << >>
    ELSE LET search_results ==
                 QdrantSearch(qd, encode(<<current_message>>), user_id,
                              limit * 2, context_relevance_threshold)
             semantic_messages(kept) ==
                 [i \in 1..Len(kept) |->
                     [from_dict(kept[i].payload) EXCEPT !.context_score = kept[i].score]]
         IN Take(semantic_messages(
                     SelectSeq(search_results,
                               LAMBDA r : r.payload.timestamp \notin exclude_recent_ids)),
                 limit)

(* _get_semantic_context: results whose timestamp string is not excluded,  *)
(* parsed with the search score as context_score, until limit are kept.    *)
_get_semantic_context(qd, user_id, current_message, limit, exclude_recent_ids, flt, e0, q0) ==
    IF ~clients.qdrant_client \/ ~clients.embedding_model THEN << >>
    ELSE IF Raises(flt, "embed", e0 + 1) \/ Raises(flt, "qdrant", q0 + 1) THEN << >>
    ELSE LET search_results ==
                 QdrantSearch(qd, encode(<<current_message>>), user_id,
                              limit * 2, context_relevance_threshold)
             semantic_messages(kept) ==
                 [i \in 1..Len(kept) |->
                     [from_dict(kept[i].payload) EXCEPT !.context_score = kept[i].score]]
         IN Take(semantic_messages(
                     SelectSeq(search_results,
                               LAMBDA r : r.payload.timestamp \notin exclude_recent_ids)),
                 limit)

----------------------------------------------------------------------------
(* Relevance filter and context assembly. *)

(* Variant: the relevant messages are not cut to max_messages. *)
_filter_by_relevance_uncut(messages, current_message, max_messages, flt, e0) ==
    LET n == Len(messages)
        current_embedding == encode(<<current_message>>)
        Score(m) == _cosine_similarity(current_embedding,
                                       encode(<<m.message, m.response>>))
        raised == {i \in 0..n : Raises(flt, "embed", e0 + 1 + i)}
        done == IF raised = {} THEN n
                ELSE (CHOOSE i \in raised : \A j \in raised : i <= j) - 1
        scored == [i \in 1..n |->
                      IF i <= done THEN [messages[i] EXCEPT !.context_score = Score(messages[i])]
                      ELSE messages[i]]
        relevant_messages ==
            SelectSeq(scored, LAMBDA m : m.context_score >= context_relevance_threshold)
    IN  IF ~clients.embedding_model \/ n = 0 THEN Take(messages, max_messages)
        ELSE IF raised # {} THEN Take(scored, max_messages)
        ELSE SortByScoreReversed(relevant_messages)

(* _filter_by_relevance.  Embedding call e0 + 1 encodes the current        *)
(* message, call e0 + 1 + i the i-th candidate; context_score is set on    *)
(* the candidate objects as the loop goes, so an exception in the loop     *)
(* returns the head of the list with the scores set so far.                *)
_filter_by_relevance(messages, current_message, max_messages, flt, e0) ==
    LET n == Len(messages)
        current_embedding == encode(<<current_message>>)
        Score(m) == _cosine_similarity(current_embedding,
                                       encode(<<m.message, m.response>>))
        raised == {i \in 0..n : Raises(flt, "embed", e0 + 1 + i)}
        done == IF raised = {} THEN n
                ELSE (CHOOSE i \in raised : \A j \in raised : i <= j) - 1
        scored == [i \in 1..n |->
                      IF i <= done THEN [messages[i] EXCEPT !.context_score = Score(messages[i])]
                      ELSE messages[i]]
        relevant_messages ==
            SelectSeq(scored, LAMBDA m : m.context_score >= context_relevance_threshold)
    IN  IF ~clients.embedding_model \/ n = 0 THEN Take(messages, max_messages)
        ELSE IF raised # {} THEN Take(scored, max_messages)
        ELSE Take(SortByScoreReversed(relevant_messages), max_messages)

(* Variant: nothing is excluded from the search results. *)
get_conversation_context_no_exclusion(rd, qd, user_id, current_message, include_semantic, flt) ==
    LET semantic_messages(context_messages, e1) ==
            IF include_semantic /\ Len(context_messages) < max_context_messages
            THEN _get_semantic_context(
                     qd, user_id, current_message,
                     max_context_messages - Len(context_messages),
                     {},
                     flt, e1, 0)
            ELSE << >>
        extended(context_messages, e1) ==
            SortByTimestamp(context_messages \o semantic_messages(context_messages, e1))
        from_recent(recent_messages) ==
            IF recent_messages # << >> /\ clients.embedding_model
            THEN extended(_filter_by_relevance(recent_messages, current_message,
                                               max_context_messages \div 2, flt, 0),
                          1 + Len(recent_messages))
            ELSE extended(Take(recent_messages, max_context_messages \div 2), 0)
    IN from_recent(_get_recent_from_redis(rd, user_id, recent_limit, flt, 0))

(* get_conversation_context. *)
get_conversation_context(rd, qd, user_id, current_message, include_semantic, flt) ==
    LET semantic_messages(context_messages, e1) ==
            IF include_semantic /\ Len(context_messages) < max_context_messages
            THEN _get_semantic_context(
                     qd, user_id, current_message,
                     max_context_messages - Len(context_messages),
                     {IsoFormat(context_messages[i].timestamp) :
                          i \in 1..Len(context_messages)},
                     flt, e1, 0)
            ELSE << >>
        extended(context_messages, e1) ==
            SortByTimestamp(context_messages \o semantic_messages(context_messages, e1))
        from_recent(recent_messages) ==
            IF recent_messages # << >> /\ clients.embedding_model
            THEN extended(_filter_by_relevance(recent_messages, current_message,
                                               max_context_messages \div 2, flt, 0),
                          1 + Len(recent_messages))
            ELSE extended(Take(recent_messages, max_context_messages \div 2), 0)
    IN from_recent(_get_recent_from_redis(rd, user_id, recent_limit, flt, 0))

----------------------------------------------------------------------------
(* ConversationProcessor. *)

(* Length in characters of the texts the model uses. *)
TextLen(w) ==
    CASE w = "python" -> 24
      [] w = "cooking" -> 30
      [] w = "pending" -> 0
      [] w = "recipe" -> 40
      [] w = "essay" -> 1200
      [] OTHER -> 10

(* (now - timestamp).total_seconds(), to the second. *)
AgeSeconds(t) == now[1] - t[1]

(* _calculate_context_confidence, in permille: 0.2 * count adequacy +      *)
(* 0.3 * recency + 0.4 * mean relevance + 0.1 * intent consistency, capped *)
(* at 1.0 from above only.                                                 *)
_calculate_context_confidence(messages) ==
    LET n == Len(messages)
        msg_count_score == Min((n * 1000) \div 10, 1000)
        total_age == SumSeq([i \in 1..n |-> AgeSeconds(messages[i].timestamp)])
        recency_score == Max(0, 1000 - (total_age * 1000) \div (n * DaySeconds))
        avg_relevance == SumSeq([i \in 1..n |-> messages[i].context_score]) \div n
        intents == SelectSeq([i \in 1..n |-> messages[i].intent], LAMBDA x : x # None)
        intent_score == IF intents # << >>
                        THEN 1000 - (Cardinality(Range(intents)) * 1000) \div Len(intents)
                        ELSE 500
        confidence == (2 * msg_count_score + 3 * recency_score
                       + 4 * avg_relevance + 1 * intent_score) \div 10
    IN IF n = 0 THEN 0 ELSE Min(confidence, 1000)

(* _create_optimized_context: the lines of the text, joined by "\n" in the *)
(* source.  Messages are taken best score first while the running length   *)
(* plus the next block stays within max_length; no block, no text.         *)
HeaderLen == 34     \* len("### Relevant Conversation History:")
UserPrefixLen == 14 \* len("[HH:MM] User: ")
BotPrefixLen == 13  \* len("[HH:MM] Bot: ")
CurrentHeaderLen == 20  \* len("### Current Message:")
CurrentPrefixLen == 6   \* len("User: ")

BlockLen(m) ==
    UserPrefixLen + TextLen(m.message) + 1 + BotPrefixLen + TextLen(m.response) + 1

_create_optimized_context(messages, current_message, max_length) ==
    LET n == Len(messages)
        Block(m) == << [kind |-> "user", at |-> m.timestamp, text |-> m.message],
                       [kind |-> "bot", at |-> m.timestamp, text |-> m.response],
                       [kind |-> "blank", at |-> <<0, 0>>, text |-> ""] >>
        context_parts(sorted_messages) ==
            LET running[i \in 0..n] ==
                    IF i = 0 THEN HeaderLen
                    ELSE running[i - 1] + BlockLen(sorted_messages[i])
                over == {i \in 1..n : running[i] > max_length}
                taken == IF over = {} THEN n
                         ELSE (CHOOSE i \in over : \A j \in over : i <= j) - 1
                blocks[i \in 0..taken] ==
                    IF i = 0 THEN << [kind |-> "header", at |-> <<0, 0>>, text |-> ""] >>
                    ELSE blocks[i - 1] \o Block(sorted_messages[i])
            IN  IF n = 0 \/ taken = 0 THEN << >>
                ELSE blocks[taken] \o
                     << [kind |-> "current_header", at |-> <<0, 0>>, text |-> ""],
                        [kind |-> "current", at |-> <<0, 0>>, text |-> current_message],
                        [kind |-> "blank", at |-> <<0, 0>>, text |-> ""] >>
    IN context_parts(SortByScoreReversed(messages))

(* len("\n".join(context_lines)): the lines and one separator between two. *)
LineLen(line) ==
    CASE line.kind = "header" -> HeaderLen
      [] line.kind = "user" -> UserPrefixLen + TextLen(line.text)
      [] line.kind = "bot" -> BotPrefixLen + TextLen(line.text)
      [] line.kind = "current_header" -> CurrentHeaderLen
      [] line.kind = "current" -> CurrentPrefixLen + TextLen(line.text)
      [] OTHER -> 0

JoinLen(context_lines) ==
    IF context_lines = << >> THEN 0
    ELSE SumSeq([i \in 1..Len(context_lines) |-> LineLen(context_lines[i])])
         + Len(context_lines) - 1

(* The context text as handle_mcp_text posts it to the webhook: the text    *)
(* itself when shorter than PayloadTextLimit characters, else its first     *)
(* PayloadTextLimit characters and a marker.  kept is the number of         *)
(* characters of a line that are in the posted text.                        *)
payload_context_text(conversation_context) ==
    LET n == Len(conversation_context)
        start[i \in 1..n] ==
            IF i = 1 THEN 0
            ELSE start[i - 1] + LineLen(conversation_context[i - 1]) + 1
        kept(i) == Max(0, Min(LineLen(conversation_context[i]), PayloadTextLimit - start[i]))
        Posted(i) == [kind |-> conversation_context[i].kind,
                      at |-> conversation_context[i].at,
                      text |-> conversation_context[i].text,
                      kept |-> kept(i)]
        reached == {i \in 1..n : start[i] < PayloadTextLimit}
    IN  IF JoinLen(conversation_context) < PayloadTextLimit
        THEN [lines |-> [i \in 1..n |-> Posted(i)], truncated |-> FALSE]
        ELSE [lines |-> [i \in 1..Cardinality(reached) |-> Posted(i)], truncated |-> TRUE]

(* process_conversation_for_context: the bundle the handler reads, with    *)
(* the message list it was computed from (context_messages).               *)
process_conversation_for_context(rd, qd, user_id, current_message, max_context_length, flt) ==
    LET bundle(context_messages) ==
            IF context_messages = << >>
            THEN [context_text |-> << >>, confidence_score |-> 0, messages_count |-> 0,
                  context_messages |-> << >>]
            ELSE [context_text |-> _create_optimized_context(context_messages,
                                                             current_message,
                                                             max_context_length),
                  confidence_score |-> _calculate_context_confidence(context_messages),
                  messages_count |-> Len(context_messages),
                  context_messages |-> context_messages]
    IN bundle(get_conversation_context(rd, qd, user_id, current_message, TRUE, flt))

----------------------------------------------------------------------------
(* Initialisation. *)

(* ConversationHistoryService.initialize and                               *)
(* QdrantConversationManager.initialize under one configuration.  In the   *)
(* service, redis.from_url sets the client before the ping; a ping that    *)
(* raises leaves the method through its outer except, before the Qdrant    *)
(* client and the embedding model are set.  The manager has no Redis.      *)
(* _ensure_qdrant_collection creates the collections on a configured       *)
(* Qdrant.                                                                 *)
initialize(cfg) ==
    LET ping_raised == cfg.redis_url /\ ~cfg.redis_answers
    IN [redis_client |-> cfg.redis_url,
        redis_reachable |-> cfg.redis_answers,
        qdrant_client |-> cfg.qdrant_api_url /\ ~ping_raised,
        embedding_model |-> cfg.model_loads /\ ~ping_raised,
        mgr_qdrant_client |-> cfg.qdrant_api_url,
        mgr_embedding_model |-> cfg.model_loads,
        collections_exist |-> cfg.qdrant_api_url]

(* Deployments: everything up; Redis configured but not answering; the    *)
(* embedding model failing to load.                                        *)
Configs ==
    { [redis_url |-> TRUE, redis_answers |-> TRUE, qdrant_api_url |-> TRUE, model_loads |-> TRUE],
      [redis_url |-> TRUE, redis_answers |-> FALSE, qdrant_api_url |-> TRUE, model_loads |-> TRUE],
      [redis_url |-> TRUE, redis_answers |-> TRUE, qdrant_api_url |-> TRUE, model_loads |-> FALSE] }

(* Deployments with a store left unconfigured. *)
PartialConfigs ==
    { [redis_url |-> FALSE, redis_answers |-> TRUE, qdrant_api_url |-> TRUE, model_loads |-> TRUE],
      [redis_url |-> TRUE, redis_answers |-> TRUE, qdrant_api_url |-> FALSE, model_loads |-> TRUE] }

(* The module-level timestamp of handlers/mcp_messages.py, read once when  *)
(* the module is imported.                                                 *)
timestamp == <<0, 0>>

Idle == [op |-> "idle"]

(* The startup of run.py over: the flag of services/initialization.py set, *)
(* its lock free (0), no startup coroutine left; each initialize() has run in  *)
(* initialize_services, in the bot's main and in the REST lifespan.        *)
Started ==
    [_services_initialized |-> TRUE, _initialization_lock |-> 0, pc |-> << >>,
     conversation_service |-> 3, qdrant_conversation_manager |-> 3]

Start(cfgs) ==
    /\ redis = [u \in Users |-> EmptyHash]
    /\ redis_expire = [u \in Users |-> NoTTL]
    /\ qdrant = << >>
    /\ qdrant_v2 = << >>
    /\ \E cfg \in cfgs : clients = initialize(cfg)
    /\ now = <<0, 1>>
    /\ budget = [adds |-> 0, cleared |-> FALSE, faulted |-> FALSE, patched |-> FALSE, jumped |-> FALSE]
    /\ ret = Idle
    /\ hist = [u \in Users |-> [cleared |-> FALSE, added |-> << >>]]
    /\ inflight = << >>
    /\ startup = Started
    /\ tasks = << >>
    /\ job_queue = {}

(* History records. *)
Cleared == [cleared |-> TRUE, added |-> << >>]
Added(h, id) == [cleared |-> FALSE, added |-> Append(h.added, id)]

Init == Start(Configs)
InitFaults == Start(Configs \cup PartialConfigs)

Spend(flt, adds) ==
    [budget EXCEPT !.faulted = @ \/ flt # NoFault, !.adds = @ + adds]

(* Operations run one after the other: ret holds the outcome of the last   *)
(* one until its caller resumes (Return).  A read may also be issued       *)
(* straight after a write, before anything else happens.                   *)
Ready == ret = Idle
ReadyToRead == ret.op \in {"idle", "add", "handle", "clear", "patch"}

(* The id of the exchange the call just before this one added for u, if    *)
(* that call was an add for u.                                             *)
AfterAdd(u) == IF ret.op = "add" /\ ret.user_id = u THEN {ret.message_id} ELSE {}

----------------------------------------------------------------------------
(* Operations of ConversationHistoryService. *)

(* The intent tag an exchange about m is stored with. *)
IntentOf(m) == IF m = "python" THEN "RAG_QUERY" ELSE None

(* add_conversation with message_id = None: the id is derived from the     *)
(* user and the timestamp read at the top of the call.  Both store methods *)
(* swallow their exceptions, so the call always returns.                   *)
add_conversation(rd, ex, qd, user_id, user_message, bot_response, intent, message_id, flt, k0, e0, q0) ==
    LET id == IF message_id = None THEN _get_message_id(user_id, now) ELSE message_id
        message == ConversationMessage(user_id, user_message, bot_response, now, intent)
        result(stored) ==
            [redis |-> stored.redis, expire |-> stored.expire,
             qdrant |-> _store_in_qdrant(qd, message, id, flt, e0, q0),
             message_id |-> id, message |-> message]
    IN result(_store_in_redis(rd, ex, message, id, flt, k0))

AddConversation(u, m, r, intent, flt) ==
    /\ Ready
    /\ budget.adds < MaxAdds
    /\ FaultOk(flt)
    /\ \E res \in {add_conversation(redis, redis_expire, qdrant, u, m, r, intent, None,
                                      flt, 0, 0, 0)} :
          /\ redis' = res.redis
          /\ redis_expire' = res.expire
          /\ qdrant' = res.qdrant
          /\ ret' = [op |-> "add", user_id |-> u, raised |-> FALSE,
                     message_id |-> res.message_id, fault |-> flt]
    /\ now' = Later(now)
    /\ budget' = Spend(flt, 1)
    /\ hist' = [hist EXCEPT ![u] = Added(@, _get_message_id(u, now))]
    /\ UNCHANGED <<startup, tasks, job_queue, inflight, qdrant_v2, clients>>

(* get_conversation_context, as called by tests and demos. *)
GetContext(u, m, include_semantic, flt) ==
    /\ ReadyToRead
    /\ FaultOk(flt)
    /\ ret' = [op |-> "get_context", user_id |-> u, raised |-> FALSE,
               current_message |-> m, include_semantic |-> include_semantic,
               fault |-> flt, after_add |-> AfterAdd(u),
               messages |-> get_conversation_context(redis, qdrant, u, m,
                                                     include_semantic, flt)]
    /\ budget' = Spend(flt, 0)
    /\ UNCHANGED <<startup, tasks, job_queue, inflight, redis, redis_expire, qdrant, qdrant_v2, clients, now, hist>>

(* process_conversation_for_context, as called by the handler and tests. *)
ProcessConversation(u, m, flt) ==
    /\ ReadyToRead
    /\ FaultOk(flt)
    /\ \E bundle \in {process_conversation_for_context(redis, qdrant, u, m,
                                                         MaxContextLength, flt)} :
          ret' = [op |-> "process", user_id |-> u, raised |-> FALSE,
                  current_message |-> m, fault |-> flt, after_add |-> AfterAdd(u),
                  messages |-> bundle.context_messages,
                  context_text |-> bundle.context_text,
                  confidence_score |-> bundle.confidence_score,
                  messages_count |-> bundle.messages_count]
    /\ budget' = Spend(flt, 0)
    /\ UNCHANGED <<startup, tasks, job_queue, inflight, redis, redis_expire, qdrant, qdrant_v2, clients, now, hist>>

(* Variant: the Redis key is not deleted. *)
clear_conversation_history_index_only(rd, ex, qd, user_id, flt, k0, q0) ==
    LET redis_raised == clients.redis_client /\ Raises(flt, "redis", k0 + 1)
        reached_qdrant == ~redis_raised /\ clients.qdrant_client
        qdrant_raised == reached_qdrant /\ Raises(flt, "qdrant", q0 + 1)
        qdrant_deleted == reached_qdrant /\ ~qdrant_raised
    IN [redis |-> rd,
        expire |-> ex,
        qdrant |-> IF qdrant_deleted
                   THEN Without(qd, {id \in DOMAIN qd : UserFilter(user_id, qd[id].payload)})
                   ELSE qd,
        raised |-> redis_raised \/ qdrant_raised,
        attempted |-> (IF clients.redis_client THEN {"redis"} ELSE {})
                      \cup (IF reached_qdrant THEN {"qdrant"} ELSE {}),
        failed |-> (IF redis_raised THEN {"redis"} ELSE {})
                   \cup (IF qdrant_raised THEN {"qdrant"} ELSE {})]

(* clear_conversation_history: one try block around both deletes; the      *)
(* except clause logs and re-raises.  attempted lists the deletes issued.   *)
clear_conversation_history(rd, ex, qd, user_id, flt, k0, q0) ==
    LET redis_raised == clients.redis_client /\ Raises(flt, "redis", k0 + 1)
        reached_qdrant == ~redis_raised /\ clients.qdrant_client
        qdrant_raised == reached_qdrant /\ Raises(flt, "qdrant", q0 + 1)
        redis_deleted == clients.redis_client /\ ~redis_raised
        qdrant_deleted == reached_qdrant /\ ~qdrant_raised
    IN [redis |-> IF redis_deleted THEN [rd EXCEPT ![user_id] = EmptyHash] ELSE rd,
        expire |-> IF redis_deleted THEN [ex EXCEPT ![user_id] = NoTTL] ELSE ex,
        qdrant |-> IF qdrant_deleted
                   THEN Without(qd, {id \in DOMAIN qd : UserFilter(user_id, qd[id].payload)})
                   ELSE qd,
        raised |-> redis_raised \/ qdrant_raised,
        attempted |-> (IF clients.redis_client THEN {"redis"} ELSE {})
                      \cup (IF reached_qdrant THEN {"qdrant"} ELSE {}),
        failed |-> (IF redis_raised THEN {"redis"} ELSE {})
                   \cup (IF qdrant_raised THEN {"qdrant"} ELSE {})]

ClearHistory(u, flt) ==
    /\ Ready
    /\ ~budget.cleared
    /\ FaultOk(flt)
    /\ \E res \in {clear_conversation_history(redis, redis_expire, qdrant, u, flt, 0, 0)} :
          /\ redis' = res.redis
          /\ redis_expire' = res.expire
          /\ qdrant' = res.qdrant
          /\ ret' = [op |-> "clear", user_id |-> u, raised |-> res.raised,
                     attempted |-> res.attempted, failed |-> res.failed, fault |-> flt]
          /\ hist' = IF res.raised THEN hist ELSE [hist EXCEPT ![u] = Cleared]
    /\ budget' = [Spend(flt, 0) EXCEPT !.cleared = TRUE]
    /\ UNCHANGED <<startup, tasks, job_queue, inflight, qdrant_v2, clients, now>>

(* get_conversation_summary: llen and lrange on the user's key, which is a *)
(* hash when it exists (Redis answers WRONGTYPE, a ResponseError); the     *)
(* outer except turns any exception into an {"error": ...} dict.  The      *)
(* Qdrant count has its own try.                                           *)
get_conversation_summary(rd, qd, user_id, flt) ==
    LET llen_raised == clients.redis_client
                       /\ (Raises(flt, "redis", 1) \/ rd[user_id] # EmptyHash)
        count_raised == clients.qdrant_client /\ Raises(flt, "qdrant", 1)
    IN  IF llen_raised THEN [error |-> TRUE, recent_messages_count |-> 0,
                             total_messages_count |-> 0]
        ELSE [error |-> FALSE,
              recent_messages_count |-> 0,
              total_messages_count |->
                  IF clients.qdrant_client /\ ~count_raised
                  THEN Cardinality({id \in DOMAIN qd : UserFilter(user_id, qd[id].payload)})
                  ELSE 0]

GetSummary(u, flt) ==
    /\ ReadyToRead
    /\ FaultOk(flt)
    /\ ret' = [op |-> "summary", user_id |-> u, raised |-> FALSE, fault |-> flt,
               summary |-> get_conversation_summary(redis, qdrant, u, flt)]
    /\ budget' = Spend(flt, 0)
    /\ UNCHANGED <<startup, tasks, job_queue, inflight, redis, redis_expire, qdrant, qdrant_v2, clients, now, hist>>

----------------------------------------------------------------------------
(* QdrantConversationManager: collection "conversation_history_v2". *)

(* Variant: the point is upserted with the rewritten keys only. *)
mgr_update_conversation_response_rewritten_only(q2, message_id, new_response, flt, e0, q0) ==
    LET found == message_id \in DOMAIN q2
        existing_point == q2[message_id]
        payload == [response |-> new_response,
                    combined_text |-> CombinedText(existing_point.payload.user_message,
                                                   new_response)]
    IN  IF ~clients.mgr_qdrant_client \/ ~found
        THEN [qdrant_v2 |-> q2, updated |-> FALSE]
        ELSE [qdrant_v2 |-> With(q2, message_id, [vector |-> encode(payload.combined_text),
                                                  payload |-> payload]),
              updated |-> TRUE]

(* update_conversation_response: retrieve the point, rewrite response and  *)
(* combined_text, re-embed (keeping the old vector if that raises), upsert. *)
(* Returns FALSE without a client, when the id is unknown, or on any       *)
(* exception.                                                              *)
mgr_update_conversation_response(q2, message_id, new_response, flt, e0, q0) ==
    LET found == message_id \in DOMAIN q2
        existing_point == q2[message_id]
        payload == [existing_point.payload EXCEPT
                        !.response = new_response,
                        !.combined_text = CombinedText(existing_point.payload.user_message,
                                                       new_response)]
        vector == IF clients.mgr_embedding_model /\ ~Raises(flt, "embed", e0 + 1)
                  THEN encode(payload.combined_text)
                  ELSE existing_point.vector
    IN  IF \/ ~clients.mgr_qdrant_client
           \/ Raises(flt, "qdrant", q0 + 1)
           \/ ~found
           \/ Raises(flt, "qdrant", q0 + 2)
        THEN [qdrant_v2 |-> q2, updated |-> FALSE]
        ELSE [qdrant_v2 |-> With(q2, message_id, [vector |-> vector, payload |-> payload]),
              updated |-> TRUE]

(* store_conversation: reads the clock itself; embeds and upserts only     *)
(* with an embedding model, and any exception (a missing client included)  *)
(* is swallowed.                                                           *)
store_conversation(q2, user_id, user_message, response, intent, context_used, conversation_turn, message_id, at, flt, e0, q0) ==
    LET combined_text == CombinedText(user_message, response)
        payload == [user_id |-> user_id, username |-> Username(user_id),
                    user_message |-> user_message, response |-> response,
                    timestamp |-> IsoFormat(at), intent |-> intent,
                    conversation_turn |-> conversation_turn,
                    is_multi_turn |-> conversation_turn > 0,
                    combined_text |-> combined_text, context_used |-> context_used]
    IN  IF \/ ~clients.mgr_embedding_model
           \/ Raises(flt, "embed", e0 + 1)
           \/ ~clients.mgr_qdrant_client
           \/ Raises(flt, "qdrant", q0 + 1)
        THEN q2
        ELSE With(q2, message_id, [vector |-> encode(combined_text), payload |-> payload])

----------------------------------------------------------------------------
(* REST endpoint POST /update_conversation_response. *)

(* Variant: an absent field is answered with success. *)
update_conversation_response_absent_ok(rd, q2, user_id, message_id, response, flt) ==
    LET hget_raised == ~clients.redis_client \/ Raises(flt, "redis", 1)
    IN [redis |-> rd, qdrant_v2 |-> q2, raised |-> hget_raised,
        status |-> IF hget_raised THEN 500 ELSE 200, qdrant_updated |-> FALSE]

(* The hget is outside any try: without a Redis client (AttributeError) or *)
(* when the call raises, the exception leaves the endpoint.  An absent     *)
(* field is a 404.  The write-back has its own try, and so has the Qdrant  *)
(* update, whose boolean result is not read.                               *)
update_conversation_response(rd, q2, user_id, message_id, response, flt) ==
    LET hget_raised == ~clients.redis_client \/ Raises(flt, "redis", 1)
        found == message_id \in DOMAIN rd[user_id]
        msg == [k \in DOMAIN rd[user_id][message_id] \cup {"bot_response"} |->
                   IF k \in {"bot_response", "response"} THEN response
                   ELSE rd[user_id][message_id][k]]
        hset_raised == Raises(flt, "redis", 2)
        success(upd) ==
            [redis |-> IF hset_raised THEN rd
                       ELSE [rd EXCEPT ![user_id] = With(@, message_id, msg)],
             qdrant_v2 |-> upd.qdrant_v2, raised |-> FALSE, status |-> 200,
             qdrant_updated |-> upd.updated]
    IN  IF hget_raised
        THEN [redis |-> rd, qdrant_v2 |-> q2, raised |-> TRUE, status |-> 500,
              qdrant_updated |-> FALSE]
        ELSE IF ~found
        THEN [redis |-> rd, qdrant_v2 |-> q2, raised |-> FALSE, status |-> 404,
              qdrant_updated |-> FALSE]
        ELSE success(mgr_update_conversation_response(q2, message_id, response, flt, 0, 0))

(* Ids a request can name: those of stored exchanges, and one of none. *)
UnknownId == <<"A", IsoFormat(<<0, 0>>), "unknown">>
KnownIds == UNION {DOMAIN redis[u] : u \in Users} \cup DOMAIN qdrant \cup DOMAIN qdrant_v2

UpdateConversationResponse(u, id, r, flt) ==
    /\ Ready
    /\ ~budget.patched
    /\ FaultOk(flt)
    /\ \E res \in {update_conversation_response(redis, qdrant_v2, u, id, r, flt)} :
          /\ redis' = res.redis
          /\ qdrant_v2' = res.qdrant_v2
          /\ ret' = [op |-> "patch", user_id |-> u, raised |-> res.raised,
                     message_id |-> id, response |-> r, status |-> res.status,
                     qdrant_updated |-> res.qdrant_updated, fault |-> flt]
    /\ budget' = [Spend(flt, 0) EXCEPT !.patched = TRUE]
    /\ UNCHANGED <<startup, tasks, job_queue, inflight, redis_expire, qdrant, clients, now, hist>>

----------------------------------------------------------------------------
(* Message handler: handlers/mcp_messages.py and conversation_commands.py. *)

(* Texts a user sends besides Msgs: one that matches a clear pattern of    *)
(* detect_clear_intent, one that holds a scheduler keyword, and one that   *)
(* holds a scheduler keyword ("schedule") and a document keyword           *)
(* ("explain"), which the classifier's tie-break tags as a document query. *)
ClearPhrase == "clear history"
SchedulerPhrase == "remind me"
ScheduleQuestion == "explain the schedule"

(* What the handler is given: the text, and what the webhook does with it. *)
HandlerInputs ==
    { <<"python", "ok">>, <<"cooking", "ok">>, <<"cooking", "error">>,
      <<"cooking", "unset">>, <<ClearPhrase, "ok">>, <<SchedulerPhrase, "ok">> }

(* Strings are sequences of characters; a character is a string of        *)
(* length 1.                                                               *)
Char(s, i) == SubSeq(s, i, i)
Chars(s) == {Char(s, i) : i \in 1..Len(s)}

UpperCase == "ABCDEFGHIJKLMNOPQRSTUVWXYZ"
LowerCase == "abcdefghijklmnopqrstuvwxyz"

(* str.lower() *)
lower(s) ==
    LET low(c) == IF c \in Chars(UpperCase)
                  THEN Char(LowerCase, CHOOSE k \in 1..Len(UpperCase) : Char(UpperCase, k) = c)
                  ELSE c
        done[i \in 0..Len(s)] == IF i = 0 THEN "" ELSE done[i - 1] \o low(Char(s, i))
    IN done[Len(s)]

(* The classes \w and \s of the re module, over the characters used. *)
WordChars == Chars(LowerCase) \cup Chars(UpperCase) \cup Chars("0123456789_")
SpaceChars == {" ", "\t", "\n", "\r"}

(* \b after the first i characters of s: exactly one of the characters     *)
(* next to that position is a word character.                              *)
IsWordAt(s, i) == i \in 1..Len(s) /\ Char(s, i) \in WordChars
WordBoundary(s, i) == IsWordAt(s, i) # IsWordAt(s, i + 1)

(* The literal w occupies the characters i + 1 .. i + Len(w) of s. *)
LiteralAt(s, i, w) == i + Len(w) <= Len(s) /\ SubSeq(s, i + 1, i + Len(w)) = w

(* clear_patterns.  Each pattern is \b(first)GAP(last)\b with alternatives *)
(* first and last, the gap being .* ("any") or \s+ ("space").              *)
clear_patterns_without_reset ==
    { [first |-> {"clear", "delete", "remove"}, gap |-> "any",
       last |-> {"conversation", "history", "chat"}],
      [first |-> {"conversation", "history", "chat"}, gap |-> "any",
       last |-> {"clear", "delete", "remove"}],
      [first |-> {"forget"}, gap |-> "any", last |-> {"conversation", "everything"}],
      [first |-> {"clear"}, gap |-> "space", last |-> {"all"}],
      [first |-> {"start"}, gap |-> "space", last |-> {"fresh"}],
      [first |-> {"new"}, gap |-> "space", last |-> {"conversation"}] }

clear_patterns ==
    { [first |-> {"clear", "delete", "remove"}, gap |-> "any",
       last |-> {"conversation", "history", "chat"}],
      [first |-> {"conversation", "history", "chat"}, gap |-> "any",
       last |-> {"clear", "delete", "remove"}],
      [first |-> {"forget"}, gap |-> "any", last |-> {"conversation", "everything"}],
      [first |-> {"reset"}, gap |-> "any", last |-> {"conversation", "chat", "history"}],
      [first |-> {"clear"}, gap |-> "space", last |-> {"all"}],
      [first |-> {"start"}, gap |-> "space", last |-> {"fresh"}],
      [first |-> {"new"}, gap |-> "space", last |-> {"conversation"}] }

(* The characters i + 1 .. k of s can be the gap: . is any character but a *)
(* newline, \s+ is at least one white-space character.                     *)
GapMatches(s, gap, i, k) ==
    IF gap = "any" THEN \A j \in (i + 1)..k : Char(s, j) # "\n"
    ELSE k > i /\ \A j \in (i + 1)..k : Char(s, j) \in SpaceChars

(* re.search(pattern, s) finds a match. *)
re_search(pattern, s) ==
    \E a \in pattern.first, b \in pattern.last :
        \E i \in 0..Len(s) :
            /\ WordBoundary(s, i)
            /\ LiteralAt(s, i, a)
            /\ \E k \in (i + Len(a))..Len(s) :
                   /\ LiteralAt(s, k, b)
                   /\ WordBoundary(s, k + Len(b))
                   /\ GapMatches(s, pattern.gap, i + Len(a), k)

detect_clear_intent(message) ==
    \E pattern \in clear_patterns : re_search(pattern, lower(message))

direct_scheduler(user_input) == user_input \in {SchedulerPhrase, ScheduleQuestion}

(* process_for_mcp_ai, the external keyword classifier: the intent value. *)
process_for_mcp_ai(user_input) ==
    CASE user_input = SchedulerPhrase -> "task_scheduler"
      [] user_input \in {"python", ScheduleQuestion} -> "rag_query"
      [] OTHER -> "unknown"

(* The texts sent to the handler in which detect_clear_intent finds a      *)
(* request to clear, worked out once.                                      *)
ClearIntentTexts ==
    {message \in {x[1] : x \in HandlerInputs} \cup {ScheduleQuestion} :
         detect_clear_intent(message)}

(* Variant: the clear is run but the handler is told to go on. *)
handle_clear_intent_in_message_falls_through(rd, ex, qd, user_id, user_message) ==
    LET cleared(c) == [handled |-> FALSE, redis |-> c.redis, expire |-> c.expire,
                       qdrant |-> c.qdrant]
    IN  IF user_message \in ClearIntentTexts
        THEN cleared(clear_conversation_history(rd, ex, qd, user_id, NoFault, 0, 0))
        ELSE [handled |-> FALSE, redis |-> rd, expire |-> ex, qdrant |-> qd]

(* handle_clear_intent_in_message: TRUE when the text asked for a clear    *)
(* and the clear went through; an exception of the clear is logged and the *)
(* text is then treated as an ordinary message.                            *)
handle_clear_intent_in_message(rd, ex, qd, user_id, user_message) ==
    LET cleared(c) == [handled |-> ~c.raised, redis |-> c.redis, expire |-> c.expire,
                       qdrant |-> c.qdrant]
    IN  IF user_message \in ClearIntentTexts
        THEN cleared(clear_conversation_history(rd, ex, qd, user_id, NoFault, 0, 0))
        ELSE [handled |-> FALSE, redis |-> rd, expire |-> ex, qdrant |-> qd]

(* handle_mcp_text.  The id comes from the module-level timestamp, not     *)
(* from the time of the call.  webhook is what the automation webhook      *)
(* did: "ok" (status 200, the placeholder text comes back), "error" (any   *)
(* other status, or an exception of the post) or "unset" (no URL           *)
(* configured: nothing is stored).                                         *)
HandleMcpText(u, user_input, webhook) ==
    /\ Ready
    /\ budget.adds < MaxAdds
    /\ \E cl \in {handle_clear_intent_in_message(redis, redis_expire, qdrant, u, user_input)} :
       \E data \in {process_conversation_for_context(cl.redis, cl.qdrant, u, user_input,
                                                     MaxContextLength, NoFault)} :
       LET message_id == _get_message_id(u, timestamp)
           has_context == /\ data.context_text # << >>
                          /\ data.confidence_score > CONFIDENCE_CONTEXT_THRESHOLD
           context_used == has_context /\ ~direct_scheduler(user_input)
           intent == process_for_mcp_ai(user_input)
           webhook_response == IF webhook = "ok" THEN "pending" ELSE "webhook error"
           stored_v2 == store_conversation(qdrant_v2, u, user_input, webhook_response,
                                           intent, has_context, data.messages_count,
                                           message_id, Later(now), NoFault, 0, 0)
           outcome == IF cl.handled THEN "cleared"
                      ELSE IF intent = "task_scheduler" THEN "scheduled"
                      ELSE IF webhook = "unset" THEN "not stored"
                      ELSE "stored"
           h1 == IF cl.handled THEN [hist EXCEPT ![u] = Cleared] ELSE hist
       IN \E added \in {add_conversation(cl.redis, cl.expire, cl.qdrant, u, user_input,
                                         webhook_response, intent, message_id,
                                         NoFault, 0, 0, 0)} :
          /\ redis' = IF outcome = "stored" THEN added.redis ELSE cl.redis
          /\ redis_expire' = IF outcome = "stored" THEN added.expire ELSE cl.expire
          /\ qdrant' = IF outcome = "stored" THEN added.qdrant ELSE cl.qdrant
          /\ qdrant_v2' = IF outcome = "stored" THEN stored_v2 ELSE qdrant_v2
          /\ now' = IF outcome = "stored" THEN Later(Later(now)) ELSE now
          /\ hist' = IF outcome = "stored" THEN [h1 EXCEPT ![u] = Added(@, message_id)]
                     ELSE h1
          /\ ret' = [op |-> "handle", user_id |-> u, raised |-> FALSE,
                     message_id |-> message_id, user_input |-> user_input,
                     outcome |-> outcome,
                     context_used |-> outcome \in {"stored", "not stored"} /\ context_used,
                     confidence_score |-> IF cl.handled THEN 0 ELSE data.confidence_score]
          /\ budget' = Spend(NoFault, 1)
    /\ UNCHANGED <<startup, tasks, job_queue, inflight, clients>>

(* handle_document (handlers/messages.py): before anything else the        *)
(* handler calls clear_all_qdrant_collections, which lists the collections *)
(* of the configured Qdrant and deletes each of them; an exception (no URL *)
(* configured) is logged.  Nothing re-creates the collections before the   *)
(* next initialize().                                                      *)
clear_all_qdrant_collections(qd, q2) ==
    IF clients.mgr_qdrant_client
    THEN [qdrant |-> << >>, qdrant_v2 |-> << >>, collections_exist |-> FALSE]
    ELSE [qdrant |-> qd, qdrant_v2 |-> q2, collections_exist |-> clients.collections_exist]

HandleDocument(u) ==
    /\ Ready
    /\ \E res \in {clear_all_qdrant_collections(qdrant, qdrant_v2)} :
          /\ qdrant' = res.qdrant
          /\ qdrant_v2' = res.qdrant_v2
          /\ clients' = [clients EXCEPT !.collections_exist = res.collections_exist]
    /\ ret' = [op |-> "document", user_id |-> u, raised |-> FALSE]
    /\ UNCHANGED <<startup, tasks, job_queue, inflight, redis, redis_expire, now, budget, hist>>

----------------------------------------------------------------------------
(* Environment: time passes; Redis drops a key whose expiry is reached. *)

AdvanceClock(d) ==
    /\ Ready
    /\ ~budget.jumped
    /\ now' = <<now[1] + d, 0>>
    /\ redis' = [u \in Users |->
                    IF redis_expire[u] # NoTTL /\ redis_expire[u][1] <= now[1] + d
                    THEN EmptyHash ELSE redis[u]]
    /\ redis_expire' = [u \in Users |->
                           IF redis_expire[u] # NoTTL /\ redis_expire[u][1] <= now[1] + d
                           THEN NoTTL ELSE redis_expire[u]]
    /\ budget' = [budget EXCEPT !.jumped = TRUE]
    /\ ret' = Idle
    /\ UNCHANGED <<startup, tasks, job_queue, inflight, qdrant, qdrant_v2, clients, hist>>

(* The caller resumes with the result. *)
Return ==
    /\ ~Ready
    /\ ret' = Idle
    /\ UNCHANGED <<startup, tasks, job_queue, inflight, redis, redis_expire, qdrant, qdrant_v2, clients, now, budget, hist>>

----------------------------------------------------------------------------

F(svc, at) == [svc |-> svc, at |-> at]

(* The faults that make a difference to each operation. *)
AddFaults == {NoFault, F("redis", 1), F("redis", 2), F("redis", 3), F("qdrant", 1)}
ReadFaults == {NoFault, F("redis", 1), F("qdrant", 1)} \cup {F("embed", k) : k \in 1..MaxAt}
ClearFaults == {NoFault, F("redis", 1), F("qdrant", 1)}
PatchFaults == {NoFault, F("redis", 1), F("redis", 2), F("qdrant", 1), F("embed", 1)}

(* The exchanges the test users add. *)
Exchanges == {<<"A", "python">>, <<"A", "cooking">>, <<"B", "cooking">>}

(* The service as its tests and demos drive it, every store answering     *)
(* as initialize() left it.                                                *)
Next ==
    \/ \E x \in Exchanges : AddConversation(x[1], x[2], "pending", IntentOf(x[2]), NoFault)
    \/ \E u \in Users, m \in Msgs : GetContext(u, m, FALSE, NoFault)
    \/ \E u \in Users, m \in Msgs : ProcessConversation(u, m, NoFault)
    \/ \E u \in Users : ClearHistory(u, NoFault)
    \/ \E u \in Users, id \in KnownIds \cup {UnknownId} :
           UpdateConversationResponse(u, id, "recipe", NoFault)
    \/ Return

Spec == Init /\ [][Next]_vars

(* One user's calls with one of them hit by a fault, and a day passing. *)
NextFaults ==
    \/ \E m \in Msgs, flt \in AddFaults :
           AddConversation("A", m, "pending", IntentOf(m), flt)
    \/ \E m \in Msgs, flt \in ReadFaults \ {F("qdrant", 1)} : GetContext("A", m, FALSE, flt)
    \/ \E m \in Msgs, flt \in ReadFaults : ProcessConversation("A", m, flt)
    \/ \E flt \in ClearFaults : ClearHistory("A", flt)
    \/ \E flt \in ClearFaults : GetSummary("A", flt)
    \/ \E id \in KnownIds \cup {UnknownId}, flt \in PatchFaults :
           UpdateConversationResponse("A", id, "recipe", flt)
    \/ AdvanceClock(DaySeconds)
    \/ Return

SpecFaults == InitFaults /\ [][NextFaults]_vars

----------------------------------------------------------------------------
(* Concurrent add_conversation calls.  The handlers are coroutines on one  *)
(* event loop: a call runs until its next await, and between two awaits of *)
(* one call any other call may run.  Every Redis command of                *)
(* _store_in_redis is awaited, so each is a step of its own; pc names the  *)
(* command the call is about to issue.                                     *)

Calls == {1, 2}

Running(c) == c \in DOMAIN inflight /\ inflight[c].pc # "done"

Goto(c, pc) == [inflight EXCEPT ![c].pc = pc]

(* add_conversation up to the first await: the timestamp is read, the id   *)
(* derived, the message built; without a Redis client _store_in_redis      *)
(* returns at once.  overlapped: where the other running calls stand.      *)
StartAdd(c, u, m) ==
    /\ Ready
    /\ budget.adds < MaxAdds
    /\ ~Running(c)
    /\ inflight' =
           With(inflight, c,
                [pc |-> IF clients.redis_client THEN "hset" ELSE "qdrant",
                 message |-> ConversationMessage(u, m, "pending", now, IntentOf(m)),
                 message_id |-> _get_message_id(u, now),
                 to_delete |-> << >>,
                 trimmed |-> FALSE,
                 overlapped |-> {inflight[d].pc : d \in {e \in Calls \ {c} : Running(e)}}])
    /\ now' = Later(now)
    /\ budget' = Spend(NoFault, 1)
    /\ hist' = [hist EXCEPT ![u] = Added(@, _get_message_id(u, now))]
    /\ UNCHANGED <<startup, tasks, job_queue, redis, redis_expire, qdrant, qdrant_v2, clients, ret>>

(* await self.redis_client.hset(redis_key, message_id, message_data) *)
AwaitHset(c) ==
    /\ Running(c) /\ inflight[c].pc = "hset"
    /\ IF Raises(NoFault, "redis", 1)
       THEN /\ inflight' = Goto(c, "qdrant")
            /\ UNCHANGED redis
       ELSE /\ redis' = [redis EXCEPT ![inflight[c].message.user_id] =
                            With(@, inflight[c].message_id, to_dict(inflight[c].message))]
            /\ inflight' = Goto(c, "expire")
    /\ UNCHANGED <<startup, tasks, job_queue, redis_expire, qdrant, qdrant_v2, clients, now, budget, ret, hist>>

(* await self.redis_client.expire(redis_key, self.redis_ttl) *)
AwaitExpire(c) ==
    /\ Running(c) /\ inflight[c].pc = "expire"
    /\ redis_expire' = [redis_expire EXCEPT ![inflight[c].message.user_id] =
                           <<now[1] + redis_ttl>>]
    /\ inflight' = Goto(c, "hkeys")
    /\ UNCHANGED <<startup, tasks, job_queue, redis, qdrant, qdrant_v2, clients, now, budget, ret, hist>>

(* fields = await self.redis_client.hkeys(redis_key), and the test of the  *)
(* count against the cap.                                                  *)
AwaitHkeys(c) ==
    /\ Running(c) /\ inflight[c].pc = "hkeys"
    /\ inflight' =
           IF Cardinality(DOMAIN redis[inflight[c].message.user_id]) > max_redis_messages
           THEN Goto(c, "hgetall") ELSE Goto(c, "qdrant")
    /\ UNCHANGED <<startup, tasks, job_queue, redis, redis_expire, qdrant, qdrant_v2, clients, now, budget, ret, hist>>

(* all_msgs = await self.redis_client.hgetall(redis_key), sorted and cut:  *)
(* the fields the loop is going to delete.                                 *)
AwaitHgetall(c) ==
    /\ Running(c) /\ inflight[c].pc = "hgetall"
    /\ \E oldest \in {TrimFields(SortFields(redis[inflight[c].message.user_id]))} :
          inflight' = [inflight EXCEPT ![c].to_delete = oldest,
                                       ![c].trimmed = oldest # << >>,
                                       ![c].pc = IF oldest = << >> THEN "qdrant" ELSE "hdel"]
    /\ UNCHANGED <<startup, tasks, job_queue, redis, redis_expire, qdrant, qdrant_v2, clients, now, budget, ret, hist>>

(* await self.redis_client.hdel(redis_key, field), once per field. *)
AwaitHdel(c) ==
    /\ Running(c) /\ inflight[c].pc = "hdel"
    /\ redis' = [redis EXCEPT ![inflight[c].message.user_id] =
                    Without(@, {Head(inflight[c].to_delete)})]
    /\ inflight' = [inflight EXCEPT ![c].to_delete = Tail(@),
                                    ![c].pc = IF Tail(inflight[c].to_delete) = << >>
                                              THEN "qdrant" ELSE "hdel"]
    /\ UNCHANGED <<startup, tasks, job_queue, redis_expire, qdrant, qdrant_v2, clients, now, budget, ret, hist>>

(* await self._store_in_qdrant(message, message_id), after which the call  *)
(* returns.                                                                *)
AwaitStoreInQdrant(c) ==
    /\ Running(c) /\ inflight[c].pc = "qdrant"
    /\ qdrant' = _store_in_qdrant(qdrant, inflight[c].message, inflight[c].message_id,
                                  NoFault, 0, 0)
    /\ inflight' = Goto(c, "done")
    /\ UNCHANGED <<startup, tasks, job_queue, redis, redis_expire, qdrant_v2, clients, now, budget, ret, hist>>

(* Two callers adding exchanges of one user at the same time. *)
NextConcurrent ==
    \/ \E c \in Calls, m \in Msgs : StartAdd(c, "A", m)
    \/ \E c \in Calls : AwaitHset(c)
    \/ \E c \in Calls : AwaitExpire(c)
    \/ \E c \in Calls : AwaitHkeys(c)
    \/ \E c \in Calls : AwaitHgetall(c)
    \/ \E c \in Calls : AwaitHdel(c)
    \/ \E c \in Calls : AwaitStoreInQdrant(c)

SpecConcurrent == Init /\ [][NextConcurrent]_vars

----------------------------------------------------------------------------
(* A request to POST /update_conversation_response running while the bot   *)
(* clears the history of the same user: every await of the endpoint and of *)
(* clear_conversation_history is a step, and the two interleave freely.    *)

PatchCall == 3
ClearCall == 4

(* The endpoint is entered. *)
StartPatch(u, id, r) ==
    /\ PatchCall \notin DOMAIN inflight
    /\ inflight' = With(inflight, PatchCall,
                        [pc |-> "hget", user_id |-> u, message_id |-> id, response |-> r,
                         msg |-> << >>, status |-> 0])
    /\ UNCHANGED <<startup, tasks, job_queue, redis, redis_expire, qdrant, qdrant_v2, clients, now, budget, ret, hist>>

(* msg_json = await conversation_service.redis_client.hget(redis_key,      *)
(* req.message_id), the 404 when it is empty, and the new dict.            *)
AwaitHget(c) ==
    /\ Running(c) /\ inflight[c].pc = "hget"
    /\ LET u == inflight[c].user_id
           id == inflight[c].message_id
       IN inflight' =
              IF ~clients.redis_client \/ Raises(NoFault, "redis", 1)
              THEN [inflight EXCEPT ![c].pc = "done", ![c].status = 500]
              ELSE IF id \notin DOMAIN redis[u]
              THEN [inflight EXCEPT ![c].pc = "done", ![c].status = 404]
              ELSE [inflight EXCEPT
                       ![c].pc = "hset_back",
                       ![c].msg = [k \in DOMAIN redis[u][id] \cup {"bot_response"} |->
                                      IF k \in {"bot_response", "response"}
                                      THEN inflight[c].response
                                      ELSE redis[u][id][k]]]
    /\ UNCHANGED <<startup, tasks, job_queue, redis, redis_expire, qdrant, qdrant_v2, clients, now, budget, ret, hist>>

(* await conversation_service.redis_client.hset(redis_key, req.message_id, *)
(* json.dumps(msg)): HSET creates the key when it is not there, and sets   *)
(* no expiry.                                                              *)
AwaitHsetBack(c) ==
    /\ Running(c) /\ inflight[c].pc = "hset_back"
    /\ redis' = [redis EXCEPT ![inflight[c].user_id] =
                    With(@, inflight[c].message_id, inflight[c].msg)]
    /\ inflight' = Goto(c, "update_qdrant")
    /\ UNCHANGED <<startup, tasks, job_queue, redis_expire, qdrant, qdrant_v2, clients, now, budget, ret, hist>>

(* await qdrant_conversation_manager.update_conversation_response(...),    *)
(* and the return of {"status": "success"}.                                *)
AwaitUpdateQdrant(c) ==
    /\ Running(c) /\ inflight[c].pc = "update_qdrant"
    /\ \E upd \in {mgr_update_conversation_response(qdrant_v2, inflight[c].message_id,
                                                     inflight[c].response, NoFault, 0, 0)} :
          qdrant_v2' = upd.qdrant_v2
    /\ inflight' = [inflight EXCEPT ![c].pc = "done", ![c].status = 200]
    /\ UNCHANGED <<startup, tasks, job_queue, redis, redis_expire, qdrant, clients, now, budget, ret, hist>>

(* clear_conversation_history is entered.  removed will hold the fields    *)
(* the delete of the key took away.                                        *)
StartClear(u) ==
    /\ ClearCall \notin DOMAIN inflight
    /\ inflight' = With(inflight, ClearCall,
                        [pc |-> IF clients.redis_client THEN "delete"
                                ELSE IF clients.qdrant_client THEN "qdrant_delete"
                                ELSE "done",
                         user_id |-> u, removed |-> {}, raised |-> FALSE])
    /\ UNCHANGED <<startup, tasks, job_queue, redis, redis_expire, qdrant, qdrant_v2, clients, now, budget, ret, hist>>

(* await self.redis_client.delete(redis_key) *)
AwaitDelete(c) ==
    /\ Running(c) /\ inflight[c].pc = "delete"
    /\ LET u == inflight[c].user_id
       IN IF Raises(NoFault, "redis", 1)
          THEN /\ inflight' = [inflight EXCEPT ![c].pc = "done", ![c].raised = TRUE]
               /\ UNCHANGED <<startup, tasks, job_queue, redis, redis_expire>>
          ELSE /\ redis' = [redis EXCEPT ![u] = EmptyHash]
               /\ redis_expire' = [redis_expire EXCEPT ![u] = NoTTL]
               /\ inflight' = [inflight EXCEPT
                                   ![c].removed = DOMAIN redis[u],
                                   ![c].pc = IF clients.qdrant_client THEN "qdrant_delete"
                                             ELSE "done"]
    /\ UNCHANGED <<startup, tasks, job_queue, qdrant, qdrant_v2, clients, now, budget, ret, hist>>

(* await asyncio.to_thread(self.qdrant_client.delete, ...), after which    *)
(* the call returns.                                                       *)
AwaitQdrantDelete(c) ==
    /\ Running(c) /\ inflight[c].pc = "qdrant_delete"
    /\ qdrant' = Without(qdrant, {id \in DOMAIN qdrant :
                                     UserFilter(inflight[c].user_id, qdrant[id].payload)})
    /\ inflight' = Goto(c, "done")
    /\ UNCHANGED <<startup, tasks, job_queue, redis, redis_expire, qdrant_v2, clients, now, budget, ret, hist>>

(* Exchanges are added one after the other; then, or in between, one patch *)
(* and one clear run side by side, and the key may reach its expiry.       *)
NextRace ==
    \/ \E m \in Msgs : AddConversation("A", m, "pending", IntentOf(m), NoFault)
    \/ \E id \in DOMAIN redis["A"] \cup {UnknownId} : StartPatch("A", id, "recipe")
    \/ AwaitHget(PatchCall)
    \/ AwaitHsetBack(PatchCall)
    \/ AwaitUpdateQdrant(PatchCall)
    \/ StartClear("A")
    \/ AwaitDelete(ClearCall)
    \/ AwaitQdrantDelete(ClearCall)
    \/ AdvanceClock(redis_ttl)
    \/ Return

SpecRace == Init /\ [][NextRace]_vars

----------------------------------------------------------------------------
(* The functions of the engine on their own, applied to arguments drawn    *)
(* from bounded sets.                                                      *)

Texts == Msgs \cup {"essay"}
Replies == {"pending", "webhook error"}

(* Lists of up to MaxCandidates messages of one user, most recent first,   *)
(* as _get_recent_from_redis returns them.                                 *)
CandidateLists ==
    UNION { { [i \in 1..n |-> ConversationMessage("A", f[i][1], f[i][2], <<0, n - i + 1>>,
                                                   IntentOf(f[i][1]))] :
                f \in [1..n -> Texts \X Replies] } : n \in 0..MaxCandidates }

(* Character budgets: tight ones and the one the handler passes. *)
MaxLengths == {100, 150, MaxContextLength}

(* The texts of the demo of detect_clear_intent, and the handler's. *)
ClearMessages ==
    { "clear all conversation", "forget everything we discussed", "start fresh please",
      "I want to reset our chat", "This is not a clear message" }

FilterByRelevance(messages, m, max_messages, flt) ==
    /\ Ready
    /\ ret' = [op |-> "filter", raised |-> FALSE, messages |-> messages,
               current_message |-> m, max_messages |-> max_messages, fault |-> flt,
               result |-> _filter_by_relevance(messages, m, max_messages, flt, 0)]
    /\ UNCHANGED <<startup, tasks, job_queue, inflight, redis, redis_expire, qdrant, qdrant_v2, clients, now, budget, hist>>

CreateOptimizedContext(messages, m, max_length) ==
    /\ Ready
    /\ ret' = [op |-> "context", raised |-> FALSE, messages |-> messages,
               current_message |-> m, max_length |-> max_length,
               context_text |-> _create_optimized_context(messages, m, max_length)]
    /\ UNCHANGED <<startup, tasks, job_queue, inflight, redis, redis_expire, qdrant, qdrant_v2, clients, now, budget, hist>>

(* The context text handle_mcp_text renders for a message list and posts. *)
WebhookContextText(messages, m) ==
    /\ Ready
    /\ \E conversation_context \in {_create_optimized_context(messages, m, MaxContextLength)} :
          ret' = [op |-> "payload", raised |-> FALSE, messages |-> messages,
                  current_message |-> m, context_text |-> conversation_context,
                  posted |-> payload_context_text(conversation_context)]
    /\ UNCHANGED <<startup, tasks, job_queue, inflight, redis, redis_expire, qdrant, qdrant_v2, clients, now, budget, hist>>

(* ConversationProcessor.chunk_size and chunk_overlap. *)
chunk_size == 10
chunk_overlap == 2
MaxMessages == 20   \* longest message list handed to the chunking

(* Variant: the windows do not overlap. *)
_create_conversation_chunks_disjoint(messages) ==
    LET starts == {i \in 0..(Len(messages) - 1) : i % chunk_size = 0}
    IN [j \in 1..Cardinality(starts) |->
            SubSeq(messages, (j - 1) * chunk_size + 1,
                   Min(Len(messages), (j - 1) * chunk_size + chunk_size))]

(* _create_conversation_chunks: the message lists of the chunks, one for   *)
(* every i of range(0, len(messages), chunk_size - chunk_overlap), holding *)
(* messages[i : i + chunk_size].                                           *)
_create_conversation_chunks(messages) ==
    LET starts == {i \in 0..(Len(messages) - 1) : i % (chunk_size - chunk_overlap) = 0}
    IN [j \in 1..Cardinality(starts) |->
            SubSeq(messages, (j - 1) * (chunk_size - chunk_overlap) + 1,
                   Min(Len(messages), (j - 1) * (chunk_size - chunk_overlap) + chunk_size))]

(* The chunking of a list of n messages, each named by its place. *)
CreateConversationChunks(n) ==
    /\ Ready
    /\ ret' = [op |-> "chunks", raised |-> FALSE, messages |-> [i \in 1..n |-> i],
               chunks |-> _create_conversation_chunks([i \in 1..n |-> i])]
    /\ UNCHANGED <<startup, tasks, job_queue, inflight, redis, redis_expire, qdrant, qdrant_v2,
                   clients, now, budget, hist>>

DetectClearIntent(message) ==
    /\ Ready
    /\ ret' = [op |-> "detect", raised |-> FALSE, message |-> message,
               result |-> detect_clear_intent(message)]
    /\ UNCHANGED <<startup, tasks, job_queue, inflight, redis, redis_expire, qdrant, qdrant_v2, clients, now, budget, hist>>

NextPure ==
    \/ /\ Ready
       /\ \E messages \in CandidateLists, m \in Texts, max_messages \in 1..(MaxCandidates - 1),
             flt \in {NoFault} \cup {F("embed", k) : k \in 1..MaxAt} :
              FilterByRelevance(messages, m, max_messages, flt)
    \/ /\ Ready
       /\ \E messages \in CandidateLists, m \in Texts, max_length \in MaxLengths :
              CreateOptimizedContext(messages, m, max_length)
    \/ /\ Ready
       /\ \E messages \in CandidateLists, m \in Texts : WebhookContextText(messages, m)
    \/ \E message \in ClearMessages \cup {ClearPhrase, SchedulerPhrase} : DetectClearIntent(message)
    \/ \E n \in 0..MaxMessages : CreateConversationChunks(n)
    \/ Return

(* With the embedding model loaded, and with the model failing to load. *)
SpecPure == Start({cfg \in Configs : cfg.redis_answers}) /\ [][NextPure]_vars

(* One user's exchanges lost or out of reach: the key expires after        *)
(* redis_ttl seconds, the history is cleared, a store is not configured or *)
(* does not answer, a lookup is hit by a fault.                            *)
NextDegraded ==
    \/ \E m \in Msgs : AddConversation("A", m, "pending", IntentOf(m), NoFault)
    \/ \E m \in Msgs, flt \in ReadFaults : ProcessConversation("A", m, flt)
    \/ ClearHistory("A", NoFault)
    \/ AdvanceClock(redis_ttl)
    \/ Return

SpecDegraded == InitFaults /\ [][NextDegraded]_vars

(* The bot as deployed: the message handler stores the exchanges, the REST *)
(* endpoint patches their responses.                                       *)
NextHandler ==
    \/ \E u \in Users, x \in HandlerInputs : HandleMcpText(u, x[1], x[2])
    \/ \E u \in Users : HandleDocument(u)
    \/ \E u \in Users, id \in KnownIds \cup {UnknownId} :
           UpdateConversationResponse(u, id, "recipe", NoFault)
    \/ \E u \in Users, m \in Msgs : ProcessConversation(u, m, NoFault)
    \/ Return

SpecHandler == Init /\ [][NextHandler]_vars

(* One user's turns, a question about a schedule among them. *)
NextTurns ==
    \/ \E x \in HandlerInputs \cup {<<ScheduleQuestion, "ok">>} : HandleMcpText("A", x[1], x[2])
    \/ Return

SpecTurns == Init /\ [][NextTurns]_vars

----------------------------------------------------------------------------
(* Startup.  run.py awaits initialize_services() and then starts the bot   *)
(* (core/mcp_bot.py main) and the REST server (rest_server.py lifespan) as *)
(* tasks of the same event loop; both call the two initialize() methods    *)
(* themselves.  startup.pc holds the position of every coroutine that has  *)
(* started: callers of initialize_services are numbered, caller 1 is the   *)
(* main of run.py.  startup._initialization_lock is the caller holding the *)
(* lock, 0 when it is free.                                                *)

MaxCallers == 3     \* calls of initialize_services in one run

(* The two singletons as their constructors leave them, in a deployment    *)
(* described by cfg.                                                       *)
Constructed(cfg) ==
    [_services_initialized |-> FALSE, _initialization_lock |-> 0, pc |-> << >>,
     conversation_service |-> 0, qdrant_conversation_manager |-> 0, config |-> cfg]

InitStartup ==
    /\ redis = [u \in Users |-> EmptyHash]
    /\ redis_expire = [u \in Users |-> NoTTL]
    /\ qdrant = << >>
    /\ qdrant_v2 = << >>
    /\ \E cfg \in Configs \cup PartialConfigs :
           /\ startup = Constructed(cfg)
           /\ clients = [redis_client |-> FALSE, redis_reachable |-> cfg.redis_answers,
                         qdrant_client |-> FALSE, embedding_model |-> FALSE,
                         mgr_qdrant_client |-> FALSE, mgr_embedding_model |-> FALSE,
                         collections_exist |-> FALSE]
    /\ now = <<0, 1>>
    /\ budget = [adds |-> 0, cleared |-> FALSE, faulted |-> FALSE, patched |-> FALSE, jumped |-> FALSE]
    /\ ret = Idle
    /\ hist = [u \in Users |-> [cleared |-> FALSE, added |-> << >>]]
    /\ inflight = << >>
    /\ tasks = << >>
    /\ job_queue = {}

At(c, pc) == c \in DOMAIN startup.pc /\ startup.pc[c] = pc

(* The coroutines of the bot's main and of the REST lifespan. *)
StartupTasks == {MaxCallers + 1, MaxCallers + 2}

(* initialize_services() is called: the coroutine reaches the async with. *)
InitializeServices(c) ==
    /\ c \notin DOMAIN startup.pc
    /\ c = 1 \/ (c - 1) \in DOMAIN startup.pc
    /\ startup' = [startup EXCEPT !.pc = With(@, c, "acquire")]
    /\ UNCHANGED <<tasks, job_queue, redis, redis_expire, qdrant, qdrant_v2, clients, now,
                   budget, ret, hist, inflight>>

(* async with _initialization_lock, and the test of the flag under it: a   *)
(* call that finds the flag set leaves the block at once.                  *)
AcquireLock(c) ==
    /\ At(c, "acquire")
    /\ startup._initialization_lock = 0
    /\ startup' = IF startup._services_initialized
                  THEN [startup EXCEPT !.pc[c] = "done"]
                  ELSE [startup EXCEPT !.pc[c] = "service", !._initialization_lock = c]
    /\ UNCHANGED <<tasks, job_queue, redis, redis_expire, qdrant, qdrant_v2, clients, now,
                   budget, ret, hist, inflight>>

(* await conversation_service.initialize() *)
AwaitServiceInitialize(c) ==
    /\ At(c, "service")
    /\ \E set \in {initialize(startup.config)} :
           clients' = [clients EXCEPT !.redis_client = set.redis_client,
                                      !.qdrant_client = set.qdrant_client,
                                      !.embedding_model = set.embedding_model,
                                      !.collections_exist = set.collections_exist]
    /\ startup' = [startup EXCEPT !.pc[c] = "manager", !.conversation_service = @ + 1]
    /\ UNCHANGED <<tasks, job_queue, redis, redis_expire, qdrant, qdrant_v2, now,
                   budget, ret, hist, inflight>>

(* await qdrant_conversation_manager.initialize(); in initialize_services  *)
(* the flag is set next and the lock released on leaving the block.        *)
AwaitManagerInitialize(c) ==
    /\ At(c, "manager")
    /\ \E set \in {initialize(startup.config)} :
           clients' = [clients EXCEPT !.mgr_qdrant_client = set.mgr_qdrant_client,
                                      !.mgr_embedding_model = set.mgr_embedding_model]
    /\ startup' = IF c \in 1..MaxCallers
                  THEN [startup EXCEPT !.pc[c] = "done",
                                       !.qdrant_conversation_manager = @ + 1,
                                       !._services_initialized = TRUE,
                                       !._initialization_lock = 0]
                  ELSE [startup EXCEPT !.pc[c] = "done",
                                       !.qdrant_conversation_manager = @ + 1]
    /\ UNCHANGED <<tasks, job_queue, redis, redis_expire, qdrant, qdrant_v2, now,
                   budget, ret, hist, inflight>>

(* The tasks run.py creates once its own initialize_services() returned:   *)
(* the bot's main and the lifespan of the REST application, each reaching  *)
(* its own conversation_service.initialize().                              *)
StartTask(c) ==
    /\ At(1, "done")
    /\ c \notin DOMAIN startup.pc
    /\ startup' = [startup EXCEPT !.pc = With(@, c, "service")]
    /\ UNCHANGED <<tasks, job_queue, redis, redis_expire, qdrant, qdrant_v2, clients, now,
                   budget, ret, hist, inflight>>

NextStartup ==
    \/ \E c \in 1..MaxCallers : InitializeServices(c)
    \/ \E c \in 1..MaxCallers : AcquireLock(c)
    \/ \E c \in 1..MaxCallers \cup StartupTasks : AwaitServiceInitialize(c)
    \/ \E c \in 1..MaxCallers \cup StartupTasks : AwaitManagerInitialize(c)
    \/ \E c \in StartupTasks : StartTask(c)

SpecStartup == InitStartup /\ [][NextStartup]_vars

----------------------------------------------------------------------------
(* Task scheduler: services/task_scheduler.py and its handlers.  tasks is  *)
(* TaskScheduler.tasks; job_queue holds the pending jobs of the bot's job  *)
(* queue, each named after its task.  A task id is built from the kind,    *)
(* the user and the time of creation.                                      *)

MaxTasks == 3       \* tasks created in one run

(* Variant: every task is listed, whoever owns it. *)
get_user_tasks_any_user(user_id) == DOMAIN tasks

(* get_user_tasks: the ids of the tasks of user_id that are active. *)
get_user_tasks(user_id) ==
    {task_id \in DOMAIN tasks : tasks[task_id].user_id = user_id /\ tasks[task_id].is_active}

(* cancel_task: the jobs named after the task are removed from the queue   *)
(* and the task from the registry; False for an id that is not registered. *)
cancel_task(task_id) ==
    IF task_id \notin DOMAIN tasks
    THEN [success |-> FALSE, tasks |-> tasks, job_queue |-> job_queue]
    ELSE [success |-> TRUE, tasks |-> Without(tasks, {task_id}),
          job_queue |-> {job \in job_queue : job.name # task_id}]

(* create_alarm (delay) and create_reminder (interval): nothing is created *)
(* when no positive number of seconds was parsed; else the task is         *)
(* registered and run_once / run_repeating queues its job.                 *)
CreateAlarmOrReminder(u, task_type, seconds) ==
    /\ Ready
    /\ budget.adds < MaxTasks
    /\ LET task_id == <<task_type, u, now>>
       IN IF seconds = 0
          THEN /\ ret' = [op |-> "create", user_id |-> u, task_id |-> None]
               /\ UNCHANGED <<tasks, job_queue>>
          ELSE /\ tasks' = With(tasks, task_id, [task_type |-> task_type, user_id |-> u,
                                                 is_active |-> TRUE])
               /\ job_queue' = job_queue \cup {[name |-> task_id,
                                                repeating |-> task_type = "reminder"]}
               /\ ret' = [op |-> "create", user_id |-> u, task_id |-> task_id]
    /\ now' = Later(now)
    /\ budget' = Spend(NoFault, 1)
    /\ UNCHANGED <<startup, redis, redis_expire, qdrant, qdrant_v2, clients, hist, inflight>>

(* create_notification: the task is registered once a time was parsed;     *)
(* the job is queued only when the time is still ahead at the second read  *)
(* of the clock (in_future), else None is returned.                        *)
CreateNotification(u, parsed, in_future) ==
    /\ Ready
    /\ budget.adds < MaxTasks
    /\ LET task_id == <<"notification", u, now>>
       IN IF ~parsed
          THEN /\ ret' = [op |-> "create", user_id |-> u, task_id |-> None]
               /\ UNCHANGED <<tasks, job_queue>>
          ELSE /\ tasks' = With(tasks, task_id, [task_type |-> "notification", user_id |-> u,
                                                 is_active |-> TRUE])
               /\ job_queue' = IF in_future
                               THEN job_queue \cup {[name |-> task_id, repeating |-> FALSE]}
                               ELSE job_queue
               /\ ret' = [op |-> "create", user_id |-> u,
                          task_id |-> IF in_future THEN task_id ELSE None]
    /\ now' = Later(now)
    /\ budget' = Spend(NoFault, 1)
    /\ UNCHANGED <<startup, redis, redis_expire, qdrant, qdrant_v2, clients, hist, inflight>>

(* A job fires and runs _send_notification: nothing for a task that is     *)
(* gone; else the message is sent and a task that is not a reminder is     *)
(* removed, unless send_message raised (sent = FALSE), which is logged.    *)
(* A run_once job leaves the queue when it fires.                          *)
SendNotification(job, sent) ==
    /\ Ready
    /\ job \in job_queue
    /\ job_queue' = IF job.repeating THEN job_queue ELSE job_queue \ {job}
    /\ tasks' = IF /\ job.name \in DOMAIN tasks
                   /\ sent
                   /\ tasks[job.name].task_type # "reminder"
                THEN Without(tasks, {job.name})
                ELSE tasks
    /\ ret' = [op |-> "fired", task_id |-> job.name, sent |-> sent]
    /\ UNCHANGED <<startup, redis, redis_expire, qdrant, qdrant_v2, clients, now, budget, hist,
                   inflight>>

(* cancel_command (/cancel <task_id>) and _handle_cancel_task ("cancel     *)
(* task <task_id>"): the task must be among the sender's own.              *)
CancelCommand(u, task_id) ==
    /\ Ready
    /\ IF task_id \notin get_user_tasks(u)
       THEN /\ ret' = [op |-> "cancel", user_id |-> u, task_id |-> task_id,
                       reply |-> "not found"]
            /\ UNCHANGED <<tasks, job_queue>>
       ELSE \E res \in {cancel_task(task_id)} :
                /\ tasks' = res.tasks
                /\ job_queue' = res.job_queue
                /\ ret' = [op |-> "cancel", user_id |-> u, task_id |-> task_id,
                           reply |-> IF res.success THEN "cancelled" ELSE "failed"]
    /\ UNCHANGED <<startup, redis, redis_expire, qdrant, qdrant_v2, clients, now, budget, hist,
                   inflight>>

NextScheduler ==
    \/ \E u \in Users, task_type \in {"alarm", "reminder"}, seconds \in {0, 20} :
           CreateAlarmOrReminder(u, task_type, seconds)
    \/ \E u \in Users, parsed \in BOOLEAN, in_future \in BOOLEAN :
           CreateNotification(u, parsed, in_future)
    \/ \E job \in job_queue, sent \in BOOLEAN : SendNotification(job, sent)
    \/ \E u \in Users, task_id \in DOMAIN tasks \cup {UnknownId} : CancelCommand(u, task_id)
    \/ Return

SpecScheduler == Init /\ [][NextScheduler]_vars

----------------------------------------------------------------------------
(* Properties. *)

(* The exchanges a context lookup returned, by the id add_conversation     *)
(* derives for them.                                                       *)
ReturnedIds ==
    IF ret.op \in {"get_context", "process"}
    THEN {_get_message_id(ret.user_id, ret.messages[i].timestamp) :
              i \in 1..Len(ret.messages)}
    ELSE {}

(* A recency-only lookup issued straight after an add for the same user,   *)
(* the added exchange being held by the recency tier.                      *)
ReadAfterAdd ==
    /\ ret.op = "get_context"
    /\ ~ret.include_semantic
    /\ ret.after_add # {}
    /\ ret.after_add \subseteq DOMAIN redis[ret.user_id]

(* Relevance of a stored exchange to a message, as _filter_by_relevance    *)
(* scores it.                                                              *)
Relevance(d, msg) ==
    _cosine_similarity(encode(<<msg>>), encode(<<from_dict(d).message, from_dict(d).response>>))

(* The exchange reaches the threshold and fewer than                       *)
(* max_context_messages // 2 exchanges of the hash are more relevant.      *)
Eligible(u, id, msg) ==
    LET h == redis[u]
    IN /\ Relevance(h[id], msg) >= context_relevance_threshold
       /\ Cardinality({j \in DOMAIN h : Relevance(h[j], msg) > Relevance(h[id], msg)})
              < max_context_messages \div 2

(* C1, as stated: an exchange that was just added and is held by the       *)
(* recency tier is in the result of a recency-only lookup issued           *)
(* immediately afterwards.                                                 *)
C1_AddedThenReturned ==
    ReadAfterAdd => ret.after_add \subseteq ReturnedIds

(* C1, amended: an exchange that was just added and is held by the recency *)
(* tier is in the result of a recency-only lookup issued immediately       *)
(* afterwards, provided that, when the embedding model is available, its   *)
(* relevance to the message reaches the threshold and fewer than           *)
(* max_context_messages // 2 recent exchanges are more relevant.           *)
C1_AddedThenReturnedIfRelevant ==
    ReadAfterAdd =>
        \A id \in ret.after_add :
            (~clients.embedding_model \/ Eligible(ret.user_id, id, ret.current_message))
                => id \in ReturnedIds

C1_Witness ==
    /\ ReadAfterAdd
    /\ clients.embedding_model
    /\ Cardinality(DOMAIN redis[ret.user_id]) > 1
    /\ ret.after_add \subseteq ReturnedIds

(* C2: every message a context lookup for a user returns carries that      *)
(* user's id, whatever was added, patched and cleared before.              *)
C2_CrossUserIsolation ==
    ret.op \in {"get_context", "process"} =>
        \A i \in 1..Len(ret.messages) : ret.messages[i].user_id = ret.user_id

(* A lookup that returned something while the index holds a point of the   *)
(* other user that matches the message.                                    *)
C2_Witness ==
    /\ ret.op = "process"
    /\ ret.messages # << >>
    /\ \E id \in DOMAIN qdrant :
           /\ qdrant[id].payload.user_id # ret.user_id
           /\ _cosine_similarity(encode(<<ret.current_message>>), qdrant[id].vector)
                  >= context_relevance_threshold

(* C3: from the completion of a clear for a user until the next add for    *)
(* that user, a context lookup returns no message and the processor        *)
(* reports confidence 0.                                                   *)
C3_EmptyAfterClear ==
    (ret.op \in {"get_context", "process"} /\ hist[ret.user_id] = Cleared) =>
        /\ ret.messages = << >>
        /\ ret.op = "process" => ret.confidence_score = 0 /\ ret.context_text = << >>

(* The processor ran for a user whose exchanges, the only ones added, were *)
(* stored in both tiers and then cleared.                                  *)
C3_Witness ==
    /\ ret.op = "process"
    /\ hist[ret.user_id] = Cleared
    /\ \A v \in Users \ {ret.user_id} : hist[v] = [cleared |-> FALSE, added |-> << >>]
    /\ budget.adds > 0
    /\ clients.redis_reachable /\ clients.embedding_model
    /\ ret.confidence_score = 0

(* C6: with the recency store answering, the hash of a user holds exactly  *)
(* the min(n, cap) most recent of the n exchanges added for the user, one  *)
(* after another, since the start or the last clear.                       *)
C6_TrimInvariant ==
    (clients.redis_client /\ clients.redis_reachable) =>
        \A u \in Users :
            LET added == hist[u].added
                n == Len(added)
            IN /\ Cardinality(DOMAIN redis[u]) = Min(n, max_redis_messages)
               /\ DOMAIN redis[u] =
                      {added[i] : i \in (n - Min(n, max_redis_messages) + 1)..n}

C6_Witness ==
    /\ clients.redis_client /\ clients.redis_reachable
    /\ \E u \in Users :
           /\ Len(hist[u].added) > max_redis_messages
           /\ Cardinality(DOMAIN redis[u]) = max_redis_messages

(* C4: the exchanges stored for one user have pairwise distinct ids, so no *)
(* turn overwrites the field or the point of an earlier one.               *)
C4_DistinctIds ==
    \A u \in Users :
        \A i, j \in DOMAIN hist[u].added :
            i # j => hist[u].added[i] # hist[u].added[j]

(* C5: the confidence reported for a non-empty context is in [0, 1]. *)
C5_ConfidenceInRange ==
    (ret.op = "process" /\ ret.messages # << >>) =>
        ret.confidence_score \in 0..1000

(* C7: after a successful patch of an exchange, the point the similarity   *)
(* lookup reads for it holds the new response and the vector of the new    *)
(* text, and every hit the lookup returns for it carries the new response. *)
C7_PatchReachesSimilarityLookup ==
    (ret.op = "patch" /\ ret.status = 200 /\ ret.message_id \in DOMAIN qdrant) =>
        LET point == qdrant[ret.message_id]
        IN /\ point.payload.response = ret.response
           /\ point.vector = encode(CombinedText(point.payload.message, ret.response))
           /\ \A m \in Msgs :
                  LET hits == _get_semantic_context(qdrant, ret.user_id, m,
                                                    max_context_messages, {}, NoFault, 0, 0)
                  IN \A i \in 1..Len(hits) :
                         IsoFormat(hits[i].timestamp) = point.payload.timestamp
                             => hits[i].response = ret.response

C9_BothDeletesAttempted ==
    (ret.op = "clear" /\ clients.redis_client /\ clients.qdrant_client) =>
        /\ ret.attempted = {"redis", "qdrant"}
        /\ "redis" \notin ret.failed => redis[ret.user_id] = EmptyHash

(* C10: no operation of the engine ends with an exception. *)
C10_NoExceptionEscapes ==
    ret.op \in {"add", "get_context", "process", "clear", "summary", "patch"} =>
        ~ret.raised

(* What an add found behind each of its two writes: the recency store      *)
(* configured, answering and not hit by the fault of the call; the index   *)
(* and the embedding provider deployed (the manager, which initialises     *)
(* them on its own, holds both) and not hit by the fault of the call.      *)
RecencySideUp ==
    clients.redis_client /\ clients.redis_reachable /\ ret.fault.svc # "redis"
IndexSideUp ==
    /\ clients.mgr_qdrant_client /\ clients.mgr_embedding_model
    /\ ret.fault.svc \notin {"qdrant", "embed"}

(* Some message makes a full context lookup for u return the exchange id. *)
Retrievable(u, id) ==
    \E m \in Msgs :
        \E found \in {get_conversation_context(redis, qdrant, u, m, TRUE, NoFault)} :
            \E i \in 1..Len(found) : _get_message_id(u, found[i].timestamp) = id

(* C11: an add performs each of its two writes whenever the store behind   *)
(* it works, whatever happened to the other write, and an exchange written *)
(* to one tier only can be retrieved by a context lookup.                  *)
C11_IndependentWrites ==
    ret.op = "add" =>
        /\ RecencySideUp => ret.message_id \in DOMAIN redis[ret.user_id]
        /\ IndexSideUp => ret.message_id \in DOMAIN qdrant
        /\ (RecencySideUp # IndexSideUp) => Retrievable(ret.user_id, ret.message_id)

(* Nothing of the user can be found: the hash is empty (never written,     *)
(* cleared or expired) or the recency store is out of reach, and the index *)
(* holds no point of the user or the index or the embedding of the current *)
(* message is out of reach.                                                *)
NothingInRecency(u) ==
    \/ redis[u] = EmptyHash
    \/ ~clients.redis_client \/ ~clients.redis_reachable
    \/ ret.fault.svc = "redis"
NothingInIndex(u) ==
    \/ {id \in DOMAIN qdrant : qdrant[id].payload.user_id = u} = {}
    \/ ~clients.qdrant_client \/ ~clients.embedding_model
    \/ ret.fault.svc = "qdrant"
    \/ ret.fault = F("embed", 1)

(* C12: when nothing of the user can be found, the processor returns an    *)
(* empty context text, no message and confidence 0, and does not raise.    *)
C12_EmptyWhenNothingFound ==
    ( /\ ret.op = "process"
      /\ NothingInRecency(ret.user_id)
      /\ NothingInIndex(ret.user_id) ) =>
        /\ ret.context_text = << >>
        /\ ret.messages = << >>
        /\ ret.messages_count = 0
        /\ ret.confidence_score = 0
        /\ ~ret.raised

(* The key of a user with exchanges has expired and the search for the     *)
(* points the index still holds for the user raised.                       *)
C12_Witness ==
    /\ ret.op = "process"
    /\ budget.jumped
    /\ hist[ret.user_id].added # << >>
    /\ clients.redis_client /\ clients.redis_reachable
    /\ redis[ret.user_id] = EmptyHash
    /\ ret.fault.svc = "qdrant"
    /\ {id \in DOMAIN qdrant : qdrant[id].payload.user_id = ret.user_id} # {}
    /\ ret.messages = << >>

(* The owner of a point has just cleared their history, by the command or  *)
(* by a message the handler took for a request to clear.                   *)
ClearedBy(u) ==
    /\ ret'.user_id = u
    /\ \/ ret'.op = "clear"
       \/ ret'.op = "handle" /\ ret'.outcome = "cleared"

(* C13: a point leaves a collection of the similarity index only in a step *)
(* that is a clear by the user the point belongs to.                       *)
C13_RemovedOnlyByOwnersClear ==
    [][ /\ \A id \in DOMAIN qdrant \ DOMAIN qdrant' :
               ret'.op # "idle" /\ ClearedBy(qdrant[id].payload.user_id)
        /\ \A id \in DOMAIN qdrant_v2 \ DOMAIN qdrant_v2' :
               ret'.op # "idle" /\ ClearedBy(qdrant_v2[id].payload.user_id)
      ]_vars

(* C14: once no add is running, every exchange added for the user is in    *)
(* the hash, however the steps of the calls interleaved, as long as no     *)
(* more exchanges were added than the cap allows.                          *)
C14_ConcurrentAddsKept ==
    ( /\ clients.redis_client /\ clients.redis_reachable
      /\ \A c \in Calls : ~Running(c)
      /\ Len(hist["A"].added) <= max_redis_messages ) =>
        \A i \in 1..Len(hist["A"].added) : hist["A"].added[i] \in DOMAIN redis["A"]

(* Both calls have finished; the second started before the first had       *)
(* written its field.                                                      *)
C14_Witness ==
    /\ clients.redis_client /\ clients.redis_reachable
    /\ DOMAIN inflight = Calls
    /\ \A c \in Calls : inflight[c].pc = "done"
    /\ \E c \in Calls : "hset" \in inflight[c].overlapped
    /\ Len(hist["A"].added) = 2
    /\ {inflight[c].message_id : c \in Calls} \subseteq DOMAIN redis["A"]

(* C15: with the embedding provider unavailable (not loaded, or raising    *)
(* from some call on) the filter returns the candidates as they came, in   *)
(* recency order and unscored, cut to max_messages.                        *)
C15_FallbackIsPlainRecency ==
    ( /\ ret.op = "filter"
      /\ \/ ~clients.embedding_model
         \/ \E k \in 1..(1 + Len(ret.messages)) : Raises(ret.fault, "embed", k) ) =>
        ret.result = Take(ret.messages, ret.max_messages)

(* C16: the context text is never longer than the budget. *)
C16_TextWithinBudget ==
    ret.op = "context" => JoinLen(ret.context_text) <= ret.max_length

(* C17: detect_clear_intent is true for the four requests of the demo and  *)
(* false for its fifth text.                                               *)
C17_ClearIntentExamples ==
    ret.op = "detect" =>
        /\ ret.message \in { "clear all conversation", "forget everything we discussed",
                             "start fresh please", "I want to reset our chat" }
               => ret.result
        /\ ret.message = "This is not a clear message" => ~ret.result

C17_Witness ==
    /\ ret.op = "detect"
    /\ ret.message = "I want to reset our chat"
    /\ ret.result

(* Every exchange stored for u, in either tier, is about the topic m. *)
StoredAbout(u, m) ==
    /\ \A id \in DOMAIN redis[u] : redis[u][id].message = m
    /\ \A id \in DOMAIN qdrant :
           qdrant[id].payload.user_id = u => qdrant[id].payload.message = m

(* C18: with both stores and the embedding model up, once exchanges about  *)
(* one topic have been added for a user moments apart, and none about      *)
(* another topic is stored for them, the context for a message on that     *)
(* topic holds at least one message and its confidence is above the        *)
(* threshold at which the handler uses it.                                 *)
C18_SameTopicContextIsUsed ==
    ( /\ ret.op = "process"
      /\ clients.redis_reachable /\ clients.embedding_model
      /\ hist[ret.user_id].added # << >>
      /\ StoredAbout(ret.user_id, ret.current_message) ) =>
        /\ Len(ret.messages) >= 1
        /\ ret.confidence_score > CONFIDENCE_CONTEXT_THRESHOLD

(* As many exchanges as the run allows, all about the topic asked about. *)
C18_Witness ==
    /\ ret.op = "process"
    /\ clients.redis_reachable /\ clients.embedding_model
    /\ Len(hist[ret.user_id].added) = MaxAdds
    /\ StoredAbout(ret.user_id, ret.current_message)
    /\ Len(ret.messages) = max_context_messages
    /\ ret.confidence_score > CONFIDENCE_CONTEXT_THRESHOLD

(* What a lookup for u about m takes from the recency tier, and what the   *)
(* search of the similarity index answers for the slots left.              *)
SelectedFromRecency(u, m) ==
    LET chosen(recent_messages) ==
            IF recent_messages # << >> /\ clients.embedding_model
            THEN _filter_by_relevance(recent_messages, m, max_context_messages \div 2,
                                      NoFault, 0)
            ELSE Take(recent_messages, max_context_messages \div 2)
    IN chosen(_get_recent_from_redis(redis, u, recent_limit, NoFault, 0))

SearchHits(u, m, limit) ==
    IF clients.qdrant_client /\ clients.embedding_model
    THEN QdrantSearch(qdrant, encode(<<m>>), u, limit * 2, context_relevance_threshold)
    ELSE << >>

(* The exchange a stored message belongs to. *)
ExchangeOf(msg) == _get_message_id(msg.user_id, msg.timestamp)

(* C20: a context lookup returns no exchange twice; of the search hits,    *)
(* exactly those whose exchange was taken from the recency tier are left   *)
(* out, and the first of the others fill the remaining slots.              *)
C20_ExclusionByExchange ==
    ret.op = "process" =>
        LET u == ret.user_id
            m == ret.current_message
            Holds(selected) ==
                LET selected_ids == {ExchangeOf(selected[i]) : i \in 1..Len(selected)}
                    remaining == max_context_messages - Len(selected)
                    others == SelectSeq(SearchHits(u, m, remaining),
                                        LAMBDA r : r.id \notin selected_ids)
                IN /\ ReturnedIds = selected_ids
                                       \cup {others[i].id : i \in 1..Min(Len(others), remaining)}
                   /\ Len(ret.messages) = Cardinality(ReturnedIds)
        IN Holds(SelectedFromRecency(u, m))

(* A lookup where one search hit was left out as already taken from the    *)
(* recency tier and another one was returned.                              *)
C20_Witness ==
    /\ ret.op = "process"
    /\ LET u == ret.user_id
           m == ret.current_message
           Seen(selected) ==
               LET selected_ids == {ExchangeOf(selected[i]) : i \in 1..Len(selected)}
                   hits == SearchHits(u, m, max_context_messages - Len(selected))
               IN /\ \E i \in 1..Len(hits) : hits[i].id \in selected_ids
                  /\ \E i \in 1..Len(hits) : /\ hits[i].id \notin selected_ids
                                              /\ hits[i].id \in ReturnedIds
       IN Seen(SelectedFromRecency(u, m))

(* The similarity of a candidate to the current message, as the filter     *)
(* computes it.                                                            *)
Similarity(c, m) == _cosine_similarity(encode(<<m>>), encode(<<c.message, c.response>>))

(* C19: with the embedding model available and answering, the filter       *)
(* returns candidates that reach the threshold, each with its similarity   *)
(* as score, best first, as many as max_messages allows, and none that has *)
(* a lower score than a candidate left out that reaches the threshold.     *)
C19_FilterKeepsBestAboveThreshold ==
    (ret.op = "filter" /\ clients.embedding_model /\ ret.fault = NoFault) =>
        LET m == ret.current_message
            above == {i \in 1..Len(ret.messages) :
                         Similarity(ret.messages[i], m) >= context_relevance_threshold}
            Pick(f) == [j \in 1..Len(ret.result) |->
                           [ret.messages[f[j]] EXCEPT
                                !.context_score = Similarity(ret.messages[f[j]], m)]]
        IN /\ Len(ret.result) = Min(ret.max_messages, Cardinality(above))
           /\ \E f \in [1..Len(ret.result) -> above] :
                  /\ \A j, k \in 1..Len(ret.result) : j # k => f[j] # f[k]
                  /\ ret.result = Pick(f)
                  /\ \A i \in above \ {f[j] : j \in 1..Len(ret.result)} :
                         \A j \in 1..Len(ret.result) :
                             Similarity(ret.messages[i], m) <= ret.result[j].context_score
           /\ \A j \in 1..(Len(ret.result) - 1) :
                  ret.result[j].context_score >= ret.result[j + 1].context_score

(* A call where one candidate was below the threshold and one above it was *)
(* cut off.                                                                *)
C19_Witness ==
    /\ ret.op = "filter" /\ clients.embedding_model /\ ret.fault = NoFault
    /\ \E i \in 1..Len(ret.messages) :
           Similarity(ret.messages[i], ret.current_message) < context_relevance_threshold
    /\ Cardinality({i \in 1..Len(ret.messages) :
                        Similarity(ret.messages[i], ret.current_message)
                            >= context_relevance_threshold}) > ret.max_messages
    /\ Len(ret.result) = ret.max_messages

(* Whether the lookup that just returned was allowed to ask the similarity *)
(* index: process_conversation_for_context always allows it.               *)
IncludeSemantic == ret.op = "process" \/ ret.include_semantic

(* C21: a lookup returns at most max_context_messages messages; at most    *)
(* half of that many come from the recency tier, all of them are returned, *)
(* and the rest comes from the similarity index, which gives nothing when  *)
(* the caller did not include it.                                          *)
C21_SlotBudget ==
    ret.op \in {"get_context", "process"} =>
        LET Within(selected) ==
                LET selected_ids == {ExchangeOf(selected[i]) : i \in 1..Len(selected)}
                IN /\ Len(selected) <= max_context_messages \div 2
                   /\ Len(ret.messages) <= max_context_messages
                   /\ selected_ids \subseteq ReturnedIds
                   /\ ~IncludeSemantic => Len(ret.messages) = Len(selected)
        IN Within(SelectedFromRecency(ret.user_id, ret.current_message))

(* A lookup that filled every slot although the recency tier held more     *)
(* relevant exchanges than its half and the index more than the rest.      *)
C21_Witness ==
    /\ ret.op = "process"
    /\ Len(ret.messages) = max_context_messages
    /\ Cardinality(DOMAIN redis[ret.user_id]) > max_context_messages \div 2
    /\ StoredAbout(ret.user_id, ret.current_message)
    /\ Cardinality({id \in DOMAIN qdrant : qdrant[id].payload.user_id = ret.user_id})
           > max_context_messages

(* C22: the messages a lookup returns are in ascending order of timestamp. *)
C22_ChronologicalOrder ==
    ret.op \in {"get_context", "process"} =>
        \A i, j \in 1..Len(ret.messages) :
            i < j => KeyLess(TimeKey(ret.messages[i].timestamp),
                             TimeKey(ret.messages[j].timestamp))

(* A lookup whose first message came from the similarity index and is older *)
(* than the one taken from the recency tier, and scores lower or higher.    *)
C22_Witness ==
    /\ ret.op = "process"
    /\ Len(ret.messages) = 2
    /\ LET Mixed(selected) ==
               /\ Len(selected) = 1
               /\ ExchangeOf(ret.messages[2]) = ExchangeOf(selected[1])
               /\ ExchangeOf(ret.messages[1]) \in DOMAIN qdrant
               /\ ret.messages[1].context_score # ret.messages[2].context_score
       IN Mixed(SelectedFromRecency(ret.user_id, ret.current_message))

(* The timestamps of the exchanges a context text lists, in the order of   *)
(* their user lines.                                                       *)
ListedTimestamps(context_text) ==
    LET user_lines == SelectSeq(context_text, LAMBDA line : line.kind = "user")
    IN [i \in 1..Len(user_lines) |-> user_lines[i].at]

(* C23: the context text lists its exchanges in ascending order of         *)
(* timestamp, the order of the message list it is rendered from.           *)
C23_TextChronological ==
    ret.op = "process" =>
        LET Ascending(listed) ==
                \A i, j \in 1..Len(listed) :
                    i < j => KeyLess(TimeKey(listed[i]), TimeKey(listed[j]))
        IN Ascending(ListedTimestamps(ret.context_text))

(* The exchanges of a text: the timestamps that have a user line, and      *)
(* those that have a response line.                                        *)
LinesOf(lines, kind) == {lines[i].at : i \in {k \in 1..Len(lines) : lines[k].kind = kind}}

(* C24: a rendered text holds, of every exchange, both lines or neither:   *)
(* the exchanges are taken in order until the first whose block would take *)
(* the running count past the budget; and the text the handler posts holds *)
(* of every exchange both lines in full or neither.                        *)
C24_NoExchangeCutInTwo ==
    /\ ret.op = "context" =>
           LET Greedy(sorted_messages) ==
                   LET listed == ListedTimestamps(ret.context_text)
                       taken == Len(listed)
                       running == HeaderLen + SumSeq([i \in 1..taken |->
                                                         BlockLen(sorted_messages[i])])
                   IN /\ LinesOf(ret.context_text, "user") = LinesOf(ret.context_text, "bot")
                      /\ listed = [i \in 1..taken |-> sorted_messages[i].timestamp]
                      /\ running <= ret.max_length \/ taken = 0
                      /\ taken < Len(sorted_messages) =>
                             running + BlockLen(sorted_messages[taken + 1]) > ret.max_length
           IN Greedy(SortByScoreReversed(ret.messages))
    /\ ret.op = "payload" =>
           /\ LinesOf(ret.posted.lines, "user") = LinesOf(ret.posted.lines, "bot")
           /\ \A i \in 1..Len(ret.posted.lines) :
                  ret.posted.lines[i].kept = LineLen(ret.posted.lines[i])

(* C25: an exchange held by both the recency tier and the collection the   *)
(* lookup searches has the same id in both (field and point id) and the    *)
(* same response text in both.                                             *)
C25_TiersAgree ==
    \A u \in Users : \A field \in DOMAIN redis[u] : \A id \in DOMAIN qdrant :
        /\ ( /\ qdrant[id].payload.user_id = u
             /\ qdrant[id].payload.timestamp = redis[u][field].timestamp ) => id = field
        /\ id = field => from_dict(redis[u][field]).response = qdrant[id].payload.response

(* C26: once a clear for a user has gone through, by the command or by a   *)
(* message the handler took for a request to clear, neither the recency    *)
(* tier nor either collection of the similarity index holds an exchange of *)
(* that user.                                                              *)
C26_ClearReachesEveryStore ==
    ( \/ ret.op = "clear" /\ ~ret.raised
      \/ ret.op = "handle" /\ ret.outcome = "cleared" ) =>
        /\ redis[ret.user_id] = EmptyHash
        /\ \A id \in DOMAIN qdrant : qdrant[id].payload.user_id # ret.user_id
        /\ \A id \in DOMAIN qdrant_v2 : qdrant_v2[id].payload.user_id # ret.user_id

(* The ids of the last k exchanges added for u, the most recent by         *)
(* timestamp.                                                              *)
MostRecentAdded(u, k) ==
    {hist[u].added[i] : i \in (Len(hist[u].added) - k + 1)..Len(hist[u].added)
                            \cap 1..Len(hist[u].added)}

(* C28: when every one of the concurrent adds of a user has finished, the  *)
(* hash holds at most cap + 1 fields and at least min(n, cap), and the cap *)
(* most recent of the n exchanges are among them.                          *)
C28_RacingTrimKeepsRecent ==
    ( /\ clients.redis_client /\ clients.redis_reachable
      /\ \A c \in Calls : ~Running(c) ) =>
        /\ Cardinality(DOMAIN redis["A"]) <= max_redis_messages + 1
        /\ Cardinality(DOMAIN redis["A"]) >= Min(Len(hist["A"].added), max_redis_messages)
        /\ MostRecentAdded("A", max_redis_messages) \subseteq DOMAIN redis["A"]

(* More exchanges than the cap, and two overlapping calls that both went   *)
(* on to trim.                                                             *)
C28_Witness ==
    /\ clients.redis_client /\ clients.redis_reachable
    /\ DOMAIN inflight = Calls
    /\ \A c \in Calls : inflight[c].pc = "done" /\ inflight[c].trimmed
    /\ \E c \in Calls : inflight[c].overlapped \cap {"hset", "expire", "hkeys"} # {}
    /\ Len(hist["A"].added) > max_redis_messages

(* C27: when a clear and a patch of one user have both finished, no field  *)
(* the clear removed is in the hash of that user.                          *)
C27_PatchDoesNotResurrect ==
    ( /\ DOMAIN inflight = {PatchCall, ClearCall}
      /\ inflight[PatchCall].pc = "done" /\ inflight[ClearCall].pc = "done"
      /\ inflight[PatchCall].user_id = inflight[ClearCall].user_id ) =>
        inflight[ClearCall].removed \cap DOMAIN redis[inflight[ClearCall].user_id] = {}

(* C30: with no call under way, a hash that exists has an expiry. *)
C30_ExistingKeyExpires ==
    (\A c \in DOMAIN inflight : ~Running(c)) =>
        \A u \in Users : redis[u] # EmptyHash => redis_expire[u] # NoTTL

(* A dict or payload with the keys a patch rewrites taken out. *)
Kept(d) == [k \in DOMAIN d \ {"response", "bot_response", "combined_text"} |-> d[k]]

(* C29: a patch of exchange id of a user leaves every other exchange as it *)
(* was in the recency tier and in both collections, creates and removes    *)
(* none, and leaves every key of the patched exchange but the response and *)
(* the text derived from it as it was.                                     *)
C29_PatchTouchesResponseOnly ==
    [][ ret'.op = "patch" =>
          /\ qdrant' = qdrant
          /\ redis_expire' = redis_expire
          /\ \A u \in Users :
                 /\ DOMAIN redis'[u] = DOMAIN redis[u]
                 /\ \A field \in DOMAIN redis[u] :
                        IF u = ret'.user_id /\ field = ret'.message_id
                        THEN Kept(redis'[u][field]) = Kept(redis[u][field])
                        ELSE redis'[u][field] = redis[u][field]
          /\ DOMAIN qdrant_v2' = DOMAIN qdrant_v2
          /\ \A id \in DOMAIN qdrant_v2 :
                 IF id = ret'.message_id
                 THEN Kept(qdrant_v2'[id].payload) = Kept(qdrant_v2[id].payload)
                 ELSE qdrant_v2'[id] = qdrant_v2[id] ]_vars

(* A patch that went through in both stores while the other user had an    *)
(* exchange stored too.                                                    *)
C29_Witness ==
    /\ ret.op = "patch" /\ ret.status = 200 /\ ret.qdrant_updated
    /\ redis[ret.user_id][ret.message_id].response = ret.response
    /\ qdrant_v2[ret.message_id].payload.response = ret.response
    /\ \E u \in Users \ {ret.user_id} :
           /\ redis[u] # EmptyHash
           /\ \E id \in DOMAIN qdrant_v2 : qdrant_v2[id].payload.user_id = u

(* C31: with the recency store unreachable, at initialization or during a  *)
(* call, and Qdrant configured and the embedding model loadable, an add    *)
(* still writes the exchange to the similarity index, and a lookup that    *)
(* includes the index still returns the exchanges its search matches.      *)
C31_SimilarityOnlyMode ==
    LET unreachable ==
            \/ ~clients.redis_client
            \/ ~clients.redis_reachable
            \/ ret.op \in {"add", "process"} /\ ret.fault.svc = "redis"
        available == clients.collections_exist /\ clients.mgr_embedding_model
        hits == QdrantSearch(qdrant, encode(<<ret.current_message>>), ret.user_id,
                             max_context_messages * 2, context_relevance_threshold)
    IN (unreachable /\ available) =>
           /\ (ret.op = "add" /\ ret.fault.svc \in {"none", "redis"})
                  => ret.message_id \in DOMAIN qdrant
           /\ (ret.op = "process" /\ ret.fault.svc \in {"none", "redis"})
                  => ReturnedIds = {hits[i].id : i \in 1..Min(Len(hits), max_context_messages)}

(* C32: however many calls of initialize_services there are, one after the *)
(* other or overlapping, conversation_service.initialize and               *)
(* qdrant_conversation_manager.initialize have each run exactly once when  *)
(* a call has returned, and never more than once.                          *)
C32_InitializedOnce ==
    /\ startup.conversation_service <= 1
    /\ startup.qdrant_conversation_manager <= 1
    /\ (\E c \in 1..MaxCallers : At(c, "done")) =>
           /\ startup.conversation_service = 1
           /\ startup.qdrant_conversation_manager = 1

(* C33: a text message the handler does not consume as a request to clear  *)
(* leads to one add_conversation for the turn, whatever the webhook did.   *)
C33_OneExchangePerTurn ==
    (ret.op = "handle" /\ ret.outcome # "cleared") => ret.outcome = "stored"

(* C34: the context_used flag stored with an exchange of the handler is    *)
(* TRUE exactly when the input of the turn was enhanced with the context   *)
(* text: the text was not empty, the confidence was above the threshold    *)
(* and the message held no scheduler keyword.                              *)
C34_ContextUsedAsEnhanced ==
    ( /\ ret.op = "handle" /\ ret.outcome = "stored"
      /\ ret.message_id \in DOMAIN qdrant_v2 ) =>
        qdrant_v2[ret.message_id].payload.context_used = ret.context_used

C36_SummaryCountsRecencyTier ==
    ( /\ ret.op = "summary" /\ ret.fault = NoFault
      /\ clients.redis_client /\ clients.redis_reachable
      /\ clients.qdrant_client /\ clients.collections_exist ) =>
        /\ ~ret.summary.error
        /\ ret.summary.recent_messages_count = Cardinality(DOMAIN redis[ret.user_id])

(* C37, as stated: a list of n >= 1 messages is cut into non-empty windows *)
(* of at most chunk_size consecutive messages in list order, every message *)
(* is in a window, and two consecutive windows share exactly               *)
(* chunk_overlap messages.                                                 *)
C37_ChunksShareTwo ==
    (ret.op = "chunks" /\ ret.messages # << >>) =>
        LET c == ret.chunks
            n == Len(ret.messages)
        IN /\ Len(c) >= 1
           /\ \A j \in 1..Len(c) :
                  /\ Len(c[j]) \in 1..chunk_size
                  /\ \E a \in 1..n : c[j] = SubSeq(ret.messages, a, a + Len(c[j]) - 1)
           /\ \A i \in 1..n : \E j \in 1..Len(c) : ret.messages[i] \in Range(c[j])
           /\ \A j \in 1..(Len(c) - 1) :
                  Cardinality(Range(c[j]) \cap Range(c[j + 1])) = chunk_overlap

(* C37, amended: as above, but two consecutive windows share chunk_overlap *)
(* messages or, when the later one is shorter than that, all of the later  *)
(* one.                                                                    *)
C37_ChunksShareUpToTwo ==
    (ret.op = "chunks" /\ ret.messages # << >>) =>
        LET c == ret.chunks
            n == Len(ret.messages)
        IN /\ Len(c) >= 1
           /\ \A j \in 1..Len(c) :
                  /\ Len(c[j]) \in 1..chunk_size
                  /\ \E a \in 1..n : c[j] = SubSeq(ret.messages, a, a + Len(c[j]) - 1)
           /\ \A i \in 1..n : \E j \in 1..Len(c) : ret.messages[i] \in Range(c[j])
           /\ \A j \in 1..(Len(c) - 1) :
                  Cardinality(Range(c[j]) \cap Range(c[j + 1]))
                      = Min(chunk_overlap, Len(c[j + 1]))

(* A list cut into three windows, the last of a single message that the    *)
(* window before it holds too.                                             *)
C37_Witness ==
    /\ ret.op = "chunks"
    /\ Len(ret.chunks) = 3
    /\ Len(ret.chunks[3]) = 1
    /\ Cardinality(Range(ret.chunks[1]) \cap Range(ret.chunks[2])) = chunk_overlap
    /\ Range(ret.chunks[3]) \subseteq Range(ret.chunks[2])

(* C38: a cancel request, by command or by message, that names a task of   *)
(* another user changes neither the task registry nor the job queue: the   *)
(* task stays registered and its job stays pending.                        *)
C38_CancelOnlyOwnTasks ==
    [][ ( /\ ret'.op = "cancel"
          /\ ret'.task_id \in DOMAIN tasks
          /\ tasks[ret'.task_id].user_id # ret'.user_id ) =>
            /\ tasks' = tasks
            /\ job_queue' = job_queue ]_vars

(* A user asked to cancel another user's task whose job is pending, and    *)
(* the task and the job are still there.                                   *)
C38_Witness ==
    /\ ret.op = "cancel"
    /\ ret.task_id \in DOMAIN tasks
    /\ tasks[ret.task_id].user_id # ret.user_id
    /\ \E job \in job_queue : job.name = ret.task_id
    /\ ret.reply = "not found"

(* C39: every task get_user_tasks lists has a job pending in the job       *)
(* queue: a task that fires once is gone from the registry when its job    *)
(* has fired, a cancelled task goes together with its job, and no task is  *)
(* registered without a job.                                               *)
C39_ListedTaskHasJob ==
    \A u \in Users : \A task_id \in get_user_tasks(u) :
        \E job \in job_queue : job.name = task_id

====
